---- MODULE Spec2Model ----
(***************************************************************************)
(* provider-akash: the lifecycle handler (Observe/Create/Update/Delete)    *)
(* of the Deployment controller, the AkashClient deployment operations it  *)
(* calls, and the AkashClient credential cache.                            *)
(*                                                                         *)
(* Strings that the code parses (the dseq / external-name) are sequences   *)
(* of one-character strings; a uint64 is the sequence of its decimal digit *)
(* values without leading zeros, so that strconv.ParseUint and             *)
(* fmt.Sprintf("%d", ..) are real conversions.                             *)
(***************************************************************************)
EXTENDS Integers, Sequences, FiniteSets, TLC

VARIABLES
    ak,          \* lifecycle: the handle's AkashClient: Config.AccountAddress, implementation
    objs,        \* lifecycle: the managed objects (kind, annotations, spec, status)
    last,        \* lifecycle: what the latest handler call was given, did and returned
    owners,      \* lifecycle: the owners Observe and Delete have passed to the client
    handle,      \* credentials: the AkashClient built by a constructor
    cache,       \* credentials: credentialCache {credentials, lastUpdated, ttl}
    now,         \* credentials: the clock
    secret,      \* credentials: what the Kubernetes secret holds
    cred,        \* credentials: what the latest credential call did and returned
    pc,          \* goroutines: where each goroutine stands in its credential call
    loc,         \* goroutines: each goroutine's call, local values and return values
    mu,          \* goroutines: credentialCache.mu, its writer and its readers
    flight,      \* goroutines: the loads and cache writes made so far
    conf,        \* configuration: an AkashConfiguration and what it resolved to
    cmd          \* command line: the AkashCommand being run, its attempts and its result

lifeVars == <<ak, objs, last, owners>>
credVars == <<handle, cache, now, secret, cred>>
concVars == <<pc, loc, mu, flight>>
vars ==
    <<ak, objs, last, owners, handle, cache, now, secret, cred, pc, loc, mu, flight, conf, cmd>>

(***************************************************************************)
(* Strings and unsigned integers                                           *)
(***************************************************************************)
DigitChars == <<"0", "1", "2", "3", "4", "5", "6", "7", "8", "9">>

IsDigit(c) == \E i \in 1..10 : DigitChars[i] = c

DigitVal(c) == (CHOOSE i \in 1..10 : DigitChars[i] = c) - 1

\* 2^64 - 1 = 18446744073709551615
MaxUint64 == <<1, 8, 4, 4, 6, 7, 4, 4, 0, 7, 3, 7, 0, 9, 5, 5, 1, 6, 1, 5>>

RECURSIVE StripZeros(_)
StripZeros(v) ==
    IF Len(v) > 1 /\ v[1] = 0 THEN StripZeros(Tail(v)) ELSE v

\* v > w for digit sequences without leading zeros
Exceeds(v, w) ==
    \/ Len(v) > Len(w)
    \/ /\ Len(v) = Len(w)
       /\ \E i \in 1..Len(v) :
            /\ v[i] > w[i]
            /\ \A j \in 1..(i - 1) : v[j] = w[j]

\* strconv.ParseUint(s, 10, 64): a syntax error for "" and for any character
\* that is not a decimal digit, a range error above 2^64-1
ParseUint(s) ==
    IF s = <<>> \/ (\E i \in 1..Len(s) : ~IsDigit(s[i]))
    THEN [ok |-> FALSE, val |-> <<>>]
    ELSE LET v == StripZeros([i \in 1..Len(s) |-> DigitVal(s[i])])
         IN  IF Exceeds(v, MaxUint64)
             THEN [ok |-> FALSE, val |-> <<>>]
             ELSE [ok |-> TRUE, val |-> v]

\* fmt.Sprintf("%d", v)
FormatUint(v) == [i \in 1..Len(v) |-> DigitChars[v[i] + 1]]

(***************************************************************************)
(* The remote side of one client call: whether the node client can be      *)
(* obtained, whether the query / broadcast succeeds, and what the query    *)
(* answers.                                                                *)
(***************************************************************************)
OtherDseq == <<9, 9>>
OtherOwner == "akash1other"

Env(nodeOk, rpcOk, echo, state) ==
    [nodeOk |-> nodeOk, rpcOk |-> rpcOk, echo |-> echo, state |-> state]

\* no node client; a failing query or broadcast; a query answered with the
\* deployment asked for, active or closed, or with another one
Envs ==
    {Env(FALSE, FALSE, FALSE, ""), Env(TRUE, FALSE, FALSE, ""),
     Env(TRUE, TRUE, TRUE, "active"), Env(TRUE, TRUE, TRUE, "closed"),
     Env(TRUE, TRUE, FALSE, "active")}

\* the deployment a successful query answers with
Response(dseqUint, owner, env) ==
    [DSeq  |-> IF env.echo THEN dseqUint ELSE OtherDseq,
     Owner |-> IF env.echo THEN owner ELSE OtherOwner,
     State |-> env.state]

NoDeployment == [State |-> "", Dseq |-> <<>>, Owner |-> ""]

Ret(err, dep, callouts) == [err |-> err, dep |-> dep, callouts |-> callouts]

(***************************************************************************)
(* AkashClient deployment operations, in the three implementations the     *)
(* repository holds: "node" (queries and broadcasts through the node       *)
(* client), "pending" (fallback values when there is no node client, query *)
(* not implemented) and "mock" (placeholders only).                        *)
(***************************************************************************)
ClientImpls == {"node", "pending", "mock"}

GetDeploymentNode(dseq, owner, env) ==
    LET p == ParseUint(dseq) IN
    IF ~p.ok THEN Ret("invalid dseq", NoDeployment, <<>>)
    ELSE IF ~env.nodeOk
    THEN Ret("failed to get node client", NoDeployment, <<"getNodeClient">>)
    ELSE IF ~env.rpcOk
    THEN Ret("failed to query deployment", NoDeployment, <<"getNodeClient", "Query.Deployment">>)
    ELSE LET r == Response(p.val, owner, env) IN
         Ret("", [State |-> r.State, Dseq |-> FormatUint(r.DSeq), Owner |-> r.Owner],
             <<"getNodeClient", "Query.Deployment">>)

GetDeploymentPending(dseq, owner, env) ==
    LET p == ParseUint(dseq) IN
    IF ~p.ok THEN Ret("invalid dseq", NoDeployment, <<>>)
    ELSE IF ~env.nodeOk
    THEN Ret("", [State |-> "active", Dseq |-> dseq, Owner |-> owner], <<"getNodeClient">>)
    ELSE Ret("deployment query implementation pending", NoDeployment, <<"getNodeClient">>)

GetDeploymentMock(dseq, owner, env) ==
    LET p == ParseUint(dseq) IN
    IF ~p.ok THEN Ret("invalid dseq", NoDeployment, <<>>)
    ELSE Ret("", [State |-> "active", Dseq |-> dseq, Owner |-> owner], <<>>)

GetDeployment(impl, dseq, owner, env) ==
    CASE impl = "node"    -> GetDeploymentNode(dseq, owner, env)
      [] impl = "pending" -> GetDeploymentPending(dseq, owner, env)
      [] OTHER            -> GetDeploymentMock(dseq, owner, env)

Str12345 == <<"1", "2", "3", "4", "5">>
MockSeqs == [Dseq |-> Str12345, Gseq |-> <<"1">>, Oseq |-> <<"1">>]
NoSeqs == [Dseq |-> <<>>, Gseq |-> <<>>, Oseq |-> <<>>]

SeqsRet(err, seqs, callouts) == [err |-> err, seqs |-> seqs, callouts |-> callouts]

CreateDeploymentNode(manifestLocation, env) ==
    IF ~env.nodeOk THEN SeqsRet("", MockSeqs, <<"getNodeClient">>)
    ELSE IF ~env.rpcOk
    THEN SeqsRet("failed to broadcast transaction", NoSeqs, <<"getNodeClient", "Tx.BroadcastMsgs">>)
    ELSE SeqsRet("", MockSeqs, <<"getNodeClient", "Tx.BroadcastMsgs">>)

CreateDeploymentMock(manifestLocation, env) == SeqsRet("", MockSeqs, <<>>)

CreateDeployment(impl, manifestLocation, env) ==
    IF impl = "mock" THEN CreateDeploymentMock(manifestLocation, env)
    ELSE CreateDeploymentNode(manifestLocation, env)

ErrRet(err, callouts) == [err |-> err, callouts |-> callouts]

DeleteDeploymentNodeClientFirst(dseq, owner, env) ==
    IF ~env.nodeOk THEN ErrRet("", <<"getNodeClient">>)
    ELSE IF ~ParseUint(dseq).ok THEN ErrRet("invalid dseq", <<"getNodeClient">>)
    ELSE IF ~env.rpcOk
    THEN ErrRet("failed to broadcast close deployment transaction",
                <<"getNodeClient", "Tx.BroadcastMsgs">>)
    ELSE ErrRet("", <<"getNodeClient", "Tx.BroadcastMsgs">>)

DeleteDeploymentNode(dseq, owner, env) ==
    IF ~ParseUint(dseq).ok THEN ErrRet("invalid dseq", <<>>)
    ELSE IF ~env.nodeOk THEN ErrRet("", <<"getNodeClient">>)
    ELSE IF ~env.rpcOk
    THEN ErrRet("failed to broadcast close deployment transaction",
                <<"getNodeClient", "Tx.BroadcastMsgs">>)
    ELSE ErrRet("", <<"getNodeClient", "Tx.BroadcastMsgs">>)

DeleteDeploymentMock(dseq, owner, env) ==
    IF ~ParseUint(dseq).ok THEN ErrRet("invalid dseq", <<>>) ELSE ErrRet("", <<>>)

DeleteDeployment(impl, dseq, owner, env) ==
    IF impl = "mock" THEN DeleteDeploymentMock(dseq, owner, env)
    ELSE DeleteDeploymentNode(dseq, owner, env)

UpdateDeploymentNode(dseq, manifestLocation, env) ==
    IF ~ParseUint(dseq).ok THEN ErrRet("invalid dseq", <<>>)
    ELSE IF ~env.nodeOk THEN ErrRet("", <<"getNodeClient">>)
    ELSE IF ~env.rpcOk
    THEN ErrRet("failed to broadcast update deployment transaction",
                <<"getNodeClient", "Tx.BroadcastMsgs">>)
    ELSE ErrRet("", <<"getNodeClient", "Tx.BroadcastMsgs">>)

UpdateDeploymentMock(dseq, manifestLocation, env) ==
    IF ~ParseUint(dseq).ok THEN ErrRet("invalid dseq", <<>>) ELSE ErrRet("", <<>>)

UpdateDeployment(impl, dseq, manifestLocation, env) ==
    IF impl = "mock" THEN UpdateDeploymentMock(dseq, manifestLocation, env)
    ELSE UpdateDeploymentNode(dseq, manifestLocation, env)

(***************************************************************************)
(* Managed objects                                                         *)
(***************************************************************************)
ExternalNameKey == "crossplane.io/external-name"
OtherKey == "app"

StrTest == <<"t", "e", "s", "t">>
Str007 == <<"0", "0", "7">>
\* 2^64, one more than a uint64 holds
StrTooBig == <<"1", "8", "4", "4", "6", "7", "4", "4", "0", "7", "3", "7", "0", "9",
               "5", "5", "1", "6", "1", "6">>

\* what the external-name annotation may hold before the handler ever ran:
\* crossplane lets users set it, and defaults it to the object's name
Markers == {Str12345, Str007, StrTest, StrTooBig}

NilAnnotations == [isNil |-> TRUE, m |-> <<>>]
Annotated(m) == [isNil |-> FALSE, m |-> m]

InitialAnnotations ==
    {NilAnnotations, Annotated([k \in {OtherKey} |-> <<"x">>]),
     Annotated([k \in {ExternalNameKey} |-> <<>>])}
    \cup {Annotated([k \in {ExternalNameKey} |-> v]) : v \in Markers}

Deployments == {"d1", "d2"}
Objects == Deployments \cup {"x1"}

Accounts == {"", "akash1owner"}

\* cr.GetAnnotations()["crossplane.io/external-name"], "" for a nil map or a
\* missing key
ExternalName(cr) ==
    IF cr.ann.isNil THEN <<>>
    ELSE IF ExternalNameKey \in DOMAIN cr.ann.m THEN cr.ann.m[ExternalNameKey]
    ELSE <<>>

SetExternalNameDropped(cr, dseq) == cr

\* annotations[external-name] = dseq, on a fresh map when there was none
SetExternalName(cr, dseq) ==
    LET old == IF cr.ann.isNil THEN [k \in {} |-> <<>>] ELSE cr.ann.m
        new == [k \in (DOMAIN old) \cup {ExternalNameKey} |->
                   IF k = ExternalNameKey THEN dseq ELSE old[k]]
    IN  [cr EXCEPT !.ann = Annotated(new)]

\* cr.Spec.ForProvider.Deployment, "test" when empty
ManifestLocation(cr) == IF cr.manifest = "" THEN "test" ELSE cr.manifest

(***************************************************************************)
(* The lifecycle handler (type external)                                   *)
(***************************************************************************)
errNotDeployment == "managed resource is not a Deployment custom resource"
errNoExternalName == "cannot update deployment: no external-name annotation found"

NoDetails == [k \in {} |-> <<>>]

Call(method, dseq, owner, manifest) ==
    [method |-> method, dseq |-> dseq, owner |-> owner, manifest |-> manifest]

\* what a handler call returns and does: its error, the observation, the
\* connection details, the client methods it called, the call-outs those made,
\* and the object as it leaves it
Outcome(err, exists, upToDate, details, calls, callouts, cr) ==
    [err |-> err, exists |-> exists, upToDate |-> upToDate, details |-> details,
     calls |-> calls, callouts |-> callouts, cr |-> cr]

NoLookup == [err |-> "", dep |-> NoDeployment]

LookupOwnerFromObject(client, cr) == cr.manifest

\* owner := c.service.client.Config.AccountAddress
LookupOwner(client, cr) == client.AccountAddress

ObserveUpToDateWhenActive(cr, deployment) == deployment.State = "active"

\* ResourceUpToDate of an existing deployment
ObserveUpToDate(cr, deployment) == TRUE

ObservedDetailsStateAsOwner(deployment) ==
    [dseq  |-> deployment.Dseq,
     owner |-> deployment.State,
     state |-> deployment.State]

ObservedDetails(deployment) ==
    [dseq  |-> deployment.Dseq,
     owner |-> deployment.Owner,
     state |-> deployment.State]

ObserveLookupFailedPropagates(err, calls, callouts, cr) ==
    Outcome(err, FALSE, FALSE, NoDetails, calls, callouts, cr)

ObserveLookupFailedForgets(err, calls, callouts, cr) ==
    Outcome("", FALSE, FALSE, NoDetails, calls, callouts,
            [cr EXCEPT !.ann = Annotated([k \in (DOMAIN cr.ann.m) \ {ExternalNameKey} |->
                                            cr.ann.m[k]])])

\* the observation after a failed lookup
ObserveLookupFailed(err, calls, callouts, cr) ==
    Outcome("", FALSE, FALSE, NoDetails, calls, callouts, cr)

\* whether Observe goes on to the lookup
ObserveHasMarker(dseq) == dseq # <<>>

ObserveCall(client, cr, env) ==
    IF ~cr.isDeployment
    THEN Outcome(errNotDeployment, FALSE, FALSE, NoDetails, <<>>, <<>>, cr)
    ELSE LET dseq == ExternalName(cr) IN
    IF ~ObserveHasMarker(dseq)
    THEN Outcome("", FALSE, FALSE, NoDetails, <<>>, <<>>, cr)
    ELSE LET owner == LookupOwner(client, cr)
             r     == GetDeployment(client.impl, dseq, owner, env)
             calls == << Call("GetDeployment", dseq, owner, "") >>
         IN  IF r.err # ""
             THEN ObserveLookupFailed(r.err, calls, r.callouts, cr)
             ELSE Outcome("", TRUE, ObserveUpToDate(cr, r.dep), ObservedDetails(r.dep),
                          calls, r.callouts, [cr EXCEPT !.observable = r.dep.State])

\* Observe of internal/controller/deployment: looks up "test"/"test" whatever
\* the object says, and always reports that nothing exists
LegacyObserveCall(client, cr, env) ==
    IF ~cr.isDeployment
    THEN Outcome(errNotDeployment, FALSE, FALSE, NoDetails, <<>>, <<>>, cr)
    ELSE LET r == GetDeployment(client.impl, StrTest, "test", env) IN
         Outcome("", FALSE, FALSE, NoDetails,
                 << Call("GetDeployment", StrTest, "test", "") >>, r.callouts, cr)

CreatedDetails(client, seqs) ==
    [dseq  |-> seqs.Dseq,
     gseq  |-> seqs.Gseq,
     oseq  |-> seqs.Oseq,
     owner |-> client.AccountAddress]

CreateCallMarkingFirst(client, cr, env) ==
    IF ~cr.isDeployment
    THEN Outcome(errNotDeployment, FALSE, FALSE, NoDetails, <<>>, <<>>, cr)
    ELSE LET manifestLocation == ManifestLocation(cr)
             r     == CreateDeployment(client.impl, manifestLocation, env)
             calls == << Call("CreateDeployment", <<>>, "", manifestLocation) >>
         IN  Outcome(r.err, FALSE, FALSE,
                     IF r.err # "" THEN NoDetails ELSE CreatedDetails(client, r.seqs),
                     calls, r.callouts, SetExternalName(cr, MockSeqs.Dseq))

CreateCall(client, cr, env) ==
    IF ~cr.isDeployment
    THEN Outcome(errNotDeployment, FALSE, FALSE, NoDetails, <<>>, <<>>, cr)
    ELSE LET manifestLocation == ManifestLocation(cr)
             r     == CreateDeployment(client.impl, manifestLocation, env)
             calls == << Call("CreateDeployment", <<>>, "", manifestLocation) >>
         IN  IF r.err # ""
             THEN Outcome(r.err, FALSE, FALSE, NoDetails, calls, r.callouts, cr)
             ELSE Outcome("", FALSE, FALSE, CreatedDetails(client, r.seqs), calls,
                          r.callouts, SetExternalName(cr, r.seqs.Dseq))

UpdateHasMarkerAlways(dseq) == TRUE

\* whether Update goes on to the client's update
UpdateHasMarker(dseq) == dseq # <<>>

UpdateCall(client, cr, env) ==
    IF ~cr.isDeployment
    THEN Outcome(errNotDeployment, FALSE, FALSE, NoDetails, <<>>, <<>>, cr)
    ELSE LET dseq == ExternalName(cr) IN
    IF ~UpdateHasMarker(dseq)
    THEN Outcome(errNoExternalName, FALSE, FALSE, NoDetails, <<>>, <<>>, cr)
    ELSE LET manifestLocation == ManifestLocation(cr)
             r     == UpdateDeployment(client.impl, dseq, manifestLocation, env)
             calls == << Call("UpdateDeployment", dseq, "", manifestLocation) >>
         IN  IF r.err # ""
             THEN Outcome(r.err, FALSE, FALSE, NoDetails, calls, r.callouts, cr)
             ELSE Outcome("", FALSE, FALSE,
                          [dseq |-> dseq, owner |-> client.AccountAddress],
                          calls, r.callouts, cr)

DeleteHasMarkerAlways(dseq) == TRUE

\* whether Delete goes on to the client's close
DeleteHasMarker(dseq) == dseq # <<>>

\* owner := c.service.client.Config.AccountAddress
DeleteOwner(client, cr) == client.AccountAddress

DeleteCallUntyped(client, cr, env) ==
    LET dseq == ExternalName(cr) IN
    IF ~DeleteHasMarker(dseq)
    THEN Outcome("", FALSE, FALSE, NoDetails, <<>>, <<>>, cr)
    ELSE LET owner == DeleteOwner(client, cr)
             r     == DeleteDeployment(client.impl, dseq, owner, env)
             calls == << Call("DeleteDeployment", dseq, owner, "") >>
         IN  Outcome(r.err, FALSE, FALSE, NoDetails, calls, r.callouts, cr)

DeleteCall(client, cr, env) ==
    IF ~cr.isDeployment
    THEN Outcome(errNotDeployment, FALSE, FALSE, NoDetails, <<>>, <<>>, cr)
    ELSE LET dseq == ExternalName(cr) IN
    IF ~DeleteHasMarker(dseq)
    THEN Outcome("", FALSE, FALSE, NoDetails, <<>>, <<>>, cr)
    ELSE LET owner == DeleteOwner(client, cr)
             r     == DeleteDeployment(client.impl, dseq, owner, env)
             calls == << Call("DeleteDeployment", dseq, owner, "") >>
         IN  Outcome(r.err, FALSE, FALSE, NoDetails, calls, r.callouts, cr)

(***************************************************************************)
(* Lifecycle actions: the reconciler may call any handler method on any    *)
(* object, with any remote behaviour.                                      *)
(***************************************************************************)
NoCall ==
    [op |-> "none", obj |-> "d1",
     pre |-> [isDeployment |-> FALSE, ann |-> NilAnnotations, manifest |-> "",
              observable |-> ""],
     err |-> "", exists |-> FALSE, upToDate |-> FALSE, details |-> NoDetails,
     calls |-> <<>>, callouts |-> <<>>, lookupErr |-> "", lookupDep |-> NoDeployment,
     echo |-> FALSE, afterCreate |-> FALSE, created |-> NoDetails,
     ctx |-> "live", follows |-> "other"]

\* the context.Context a handler method is given
Contexts == {"live", "canceled"}

\* a call-out given a canceled context does not succeed
CtxEnvs(ctx) == IF ctx = "canceled" THEN {env \in Envs : ~env.rpcOk} ELSE Envs

\* whether the latest call was a successful op on object o that broadcast a
\* transaction
Broadcast(op, o) ==
    /\ last.op = op /\ last.obj = o /\ last.err = ""
    /\ \E i \in DOMAIN last.callouts : last.callouts[i] = "Tx.BroadcastMsgs"

\* what the call on object o directly follows: a Create or a Delete that
\* broadcast its transaction, an Observe that reported the object absent
\* right after such a Create, or anything else
Follows(o) ==
    IF Broadcast("Create", o) THEN "Create"
    ELSE IF Broadcast("Delete", o) THEN "Delete"
    ELSE IF /\ last.op = "Observe" /\ last.obj = o /\ last.err = "" /\ ~last.exists
            /\ last.follows = "Create"
    THEN "absent after Create"
    ELSE "other"

\* the record of a handler call: what it was given, what it returned and did,
\* whether the remote side answers a query with the deployment asked for,
\* whether the call directly follows a successful Create on the same object,
\* and what else it follows
Record(op, o, ctx, out, lookup, env) ==
    [op |-> op, obj |-> o, pre |-> objs[o],
     err |-> out.err, exists |-> out.exists, upToDate |-> out.upToDate,
     details |-> out.details, calls |-> out.calls, callouts |-> out.callouts,
     lookupErr |-> lookup.err, lookupDep |-> lookup.dep, echo |-> env.echo,
     afterCreate |-> (last.op = "Create" /\ last.err = "" /\ last.obj = o),
     created |-> IF last.op = "Create" /\ last.err = "" /\ last.obj = o
                 THEN last.details ELSE NoDetails,
     ctx |-> ctx, follows |-> Follows(o)]

\* the lookup Observe made, if it made one
LookupOf(client, out, env) ==
    IF out.calls = <<>> THEN NoLookup
    ELSE LET r == GetDeployment(client.impl, out.calls[1].dseq, out.calls[1].owner, env)
         IN  [err |-> r.err, dep |-> r.dep]

\* the owners passed so far, with those of this call
Passed(o, out) ==
    owners \cup {out.calls[i].owner : i \in DOMAIN out.calls}

Observe(o, ctx, env) ==
    LET out == ObserveCall(ak, objs[o], env) IN
    /\ objs' = [objs EXCEPT ![o] = out.cr]
    /\ last' = Record("Observe", o, ctx, out, LookupOf(ak, out, env), env)
    /\ owners' = Passed(o, out)
    /\ UNCHANGED <<ak, credVars, concVars, conf, cmd>>

LegacyObserve(o, ctx, env) ==
    LET out == LegacyObserveCall(ak, objs[o], env) IN
    /\ objs' = [objs EXCEPT ![o] = out.cr]
    /\ last' = Record("LegacyObserve", o, ctx, out, LookupOf(ak, out, env), env)
    /\ owners' = owners
    /\ UNCHANGED <<ak, credVars, concVars, conf, cmd>>

Create(o, ctx, env) ==
    LET out == CreateCall(ak, objs[o], env) IN
    /\ objs' = [objs EXCEPT ![o] = out.cr]
    /\ last' = Record("Create", o, ctx, out, NoLookup, env)
    /\ owners' = owners
    /\ UNCHANGED <<ak, credVars, concVars, conf, cmd>>

Update(o, ctx, env) ==
    LET out == UpdateCall(ak, objs[o], env) IN
    /\ objs' = [objs EXCEPT ![o] = out.cr]
    /\ last' = Record("Update", o, ctx, out, NoLookup, env)
    /\ owners' = owners
    /\ UNCHANGED <<ak, credVars, concVars, conf, cmd>>

Delete(o, ctx, env) ==
    LET out == DeleteCall(ak, objs[o], env) IN
    /\ objs' = [objs EXCEPT ![o] = out.cr]
    /\ last' = Record("Delete", o, ctx, out, NoLookup, env)
    /\ owners' = Passed(o, out)
    /\ UNCHANGED <<ak, credVars, concVars, conf, cmd>>

\* the managed reconciler calls Create next when Observe has returned no
\* error and ResourceExists = false
CreateDue == last.op = "Observe" /\ last.err = "" /\ ~last.exists

\* one reconciliation pass begins: Observe, unless a Create is due
ReconcileObserve(o, env) == ~CreateDue /\ Observe(o, "live", env)

\* the pass goes on to Create for the object Observe reported absent
ReconcileCreate(env) == CreateDue /\ Create(last.obj, "live", env)

(***************************************************************************)
(* Credentials: the AkashClient constructors and the credential cache      *)
(***************************************************************************)
\* time is counted in minutes
DefaultTTL == 5
MaxTime == 7

NilBlob == "<nil>"
Blobs == {"key-A", "key-B"}
\* a secret whose key is missing is extracted as nil bytes without an error
SecretValues == Blobs \cup {NilBlob}
TTLChoices == {-1, 0, 2, DefaultTTL}

ZeroTime == [zero |-> TRUE, at |-> 0]
At(t) == [zero |-> FALSE, at |-> t]

NoCache == [present |-> FALSE, credentials |-> NilBlob, lastUpdated |-> ZeroTime, ttl |-> 0]
NoHandle ==
    [built |-> FALSE, ctor |-> "none", hasSecretRef |-> FALSE, hasKubeClient |-> FALSE,
     Creds |-> NilBlob]

\* resource.CommonCredentialExtractor for a secret: the secret's value, or an
\* error
ExtractSecret(value, fails) ==
    IF fails THEN [err |-> "cannot get credentials secret", creds |-> NilBlob]
    ELSE [err |-> "", creds |-> value]

\* resource.CommonCredentialExtractor as the constructors call it: a secret
\* source without a secret reference is an error
ExtractCredentials(source, hasRef, value, fails) ==
    IF source = "Secret" /\ ~hasRef
    THEN [err |-> "cannot extract from secret key when none specified", creds |-> NilBlob]
    ELSE ExtractSecret(value, fails)

ExpiredAtTTL(c, t) == c.lastUpdated.zero \/ (t - c.lastUpdated.at >= c.ttl)

\* time.Since(lastUpdated) > ttl; the zero time is centuries ago
Expired(c, t) == c.lastUpdated.zero \/ (t - c.lastUpdated.at > c.ttl)

\* getCachedCredentials: the cached credentials if valid, nil otherwise
getCachedCredentials(c, t) ==
    IF ~c.present THEN NilBlob
    ELSE IF Expired(c, t) THEN NilBlob
    ELSE c.credentials

\* the cache after loadAndCacheCredentials stored creds at time t
StoreCredentialsKeepingTimestamp(c, creds, t) ==
    IF c.present THEN [c EXCEPT !.credentials = creds] ELSE c

StoreCredentialsStampingEpoch(c, creds, t) ==
    IF c.present THEN [c EXCEPT !.credentials = creds, !.lastUpdated = At(0)] ELSE c

StoreCredentials(c, creds, t) ==
    IF c.present THEN [c EXCEPT !.credentials = creds, !.lastUpdated = At(t)] ELSE c

CredRet(err, result, loads, h, c) ==
    [err |-> err, result |-> result, loads |-> loads, handle |-> h, cache |-> c]

loadAndCacheCredentialsStoringFailure(h, c, t, value, fails) ==
    IF ~h.hasKubeClient \/ ~h.hasSecretRef THEN CredRet("", h.Creds, 0, h, c)
    ELSE LET r == ExtractSecret(value, fails) IN
         CredRet(r.err, r.creds, 1, [h EXCEPT !.Creds = r.creds],
                 StoreCredentials(c, r.creds, t))

\* loadAndCacheCredentials: load from the secret, cache, and set Config.Creds
loadAndCacheCredentials(h, c, t, value, fails) ==
    IF ~h.hasKubeClient \/ ~h.hasSecretRef THEN CredRet("", h.Creds, 0, h, c)
    ELSE LET r == ExtractSecret(value, fails) IN
         IF r.err # "" THEN CredRet(r.err, NilBlob, 1, h, c)
         ELSE CredRet("", r.creds, 1, [h EXCEPT !.Creds = r.creds],
                      StoreCredentials(c, r.creds, t))

\* GetCredentials: the direct credentials without a secret reference, else
\* the cached ones, else a load
GetCredentials(h, c, t, value, fails) ==
    IF ~h.hasSecretRef THEN CredRet("", h.Creds, 0, h, c)
    ELSE LET cached == getCachedCredentials(c, t) IN
         IF cached # NilBlob THEN CredRet("", cached, 0, h, c)
         ELSE loadAndCacheCredentials(h, c, t, value, fails)

RefreshCredentialsWhenStale(h, c, t, value, fails) ==
    IF ~h.hasSecretRef \/ getCachedCredentials(c, t) # NilBlob
    THEN CredRet("", NilBlob, 0, h, c)
    ELSE LET r == loadAndCacheCredentials(h, c, t, value, fails) IN
         CredRet(r.err, NilBlob, r.loads, r.handle, r.cache)

\* RefreshCredentials: nothing without a secret reference, else a load
RefreshCredentials(h, c, t, value, fails) ==
    IF ~h.hasSecretRef THEN CredRet("", NilBlob, 0, h, c)
    ELSE LET r == loadAndCacheCredentials(h, c, t, value, fails) IN
         CredRet(r.err, NilBlob, r.loads, r.handle, r.cache)

SetCredentialCacheTTLRestamping(c, ttl) ==
    IF c.present THEN [c EXCEPT !.ttl = ttl, !.lastUpdated = ZeroTime] ELSE c

SetCredentialCacheTTL(c, ttl) == IF c.present THEN [c EXCEPT !.ttl = ttl] ELSE c

Sources == {"Secret", "Environment"}

Built(err, h, c, loads, tracks) ==
    [err |-> err, handle |-> h, cache |-> c, loads |-> loads, tracks |-> tracks]

\* New: direct credentials, no secret reference and no cache
New(creds) ==
    Built("", [built |-> TRUE, ctor |-> "New", hasSecretRef |-> FALSE,
               hasKubeClient |-> FALSE, Creds |-> creds], NoCache, 0, 0)

\* NewWithSecretRef: a secret reference and an empty cache with the default
\* TTL; nothing is loaded, and the Kubernetes client is as given
NewWithSecretRef(hasKubeClient, creds) ==
    Built("", [built |-> TRUE, ctor |-> "NewWithSecretRef", hasSecretRef |-> TRUE,
               hasKubeClient |-> hasKubeClient, Creds |-> creds],
          [present |-> TRUE, credentials |-> NilBlob, lastUpdated |-> ZeroTime,
           ttl |-> DefaultTTL], 0, 0)

TrackUsageFailedNever(hasUsage, trackFails) == FALSE

\* if usage != nil { if err := usage.Track(ctx, mg); err != nil
TrackUsageFailed(hasUsage, trackFails) == hasUsage /\ trackFails

NewFromManagedResourceTrackingFirst(source, hasRef, hasUsage, value, loadFails, trackFails, t) ==
    LET r == ExtractCredentials(source, hasRef, value, loadFails) IN
    IF hasUsage /\ trackFails
    THEN Built("cannot track ProviderConfig usage", NoHandle, NoCache, 0, 1)
    ELSE IF r.err # ""
    THEN Built("failed to load credentials from ProviderConfig", NoHandle, NoCache, 1,
               IF hasUsage THEN 1 ELSE 0)
    ELSE Built("", [built |-> TRUE, ctor |-> "NewFromManagedResource",
                    hasSecretRef |-> (source = "Secret" /\ hasRef), hasKubeClient |-> TRUE,
                    Creds |-> r.creds],
               [present |-> TRUE, credentials |-> r.creds, lastUpdated |-> At(t),
                ttl |-> DefaultTTL], 1, IF hasUsage THEN 1 ELSE 0)

NewFromManagedResourceUntracked(source, hasRef, hasUsage, value, loadFails, trackFails, t) ==
    LET r == ExtractCredentials(source, hasRef, value, loadFails) IN
    IF r.err # ""
    THEN Built("failed to load credentials from ProviderConfig", NoHandle, NoCache, 1, 0)
    ELSE Built("", [built |-> TRUE, ctor |-> "NewFromManagedResource",
                    hasSecretRef |-> (source = "Secret" /\ hasRef), hasKubeClient |-> TRUE,
                    Creds |-> r.creds],
               [present |-> TRUE, credentials |-> r.creds, lastUpdated |-> At(t),
                ttl |-> DefaultTTL], 1, 0)

BindsSecretRefAlways(source, hasRef) == TRUE

\* if pcInfo.Source == xpv1.CredentialsSourceSecret && pcInfo.SecretRef != nil
BindsSecretRef(source, hasRef) == source = "Secret" /\ hasRef

\* NewFromManagedResource: cache with the default TTL, secret reference for a
\* secret source, credentials loaded, usage tracked, credentials cached
NewFromManagedResource(source, hasRef, hasUsage, value, loadFails, trackFails, t) ==
    LET h0 == [built |-> TRUE, ctor |-> "NewFromManagedResource",
               hasSecretRef |-> BindsSecretRef(source, hasRef), hasKubeClient |-> TRUE,
               Creds |-> NilBlob]
        c0 == [present |-> TRUE, credentials |-> NilBlob, lastUpdated |-> ZeroTime,
               ttl |-> DefaultTTL]
        r  == ExtractCredentials(source, hasRef, value, loadFails)
        tracks == IF hasUsage THEN 1 ELSE 0
    IN  IF r.err # "" THEN Built("failed to load credentials from ProviderConfig",
                                 NoHandle, NoCache, 1, 0)
        ELSE IF TrackUsageFailed(hasUsage, trackFails)
        THEN Built("cannot track ProviderConfig usage", NoHandle, NoCache, 1, tracks)
        ELSE Built("", [h0 EXCEPT !.Creds = r.creds],
                   [c0 EXCEPT !.credentials = r.creds, !.lastUpdated = At(t)], 1, tracks)

\* NewFromProviderConfig (legacy): NewWithSecretRef for a secret source, whose
\* cache starts empty, and New otherwise, which has no cache
NewFromProviderConfig(source, hasRef, value, loadFails, trackFails, t) ==
    LET r == ExtractCredentials(source, hasRef, value, loadFails) IN
    IF r.err # "" THEN Built(r.err, NoHandle, NoCache, 1, 0)
    ELSE IF source = "Secret" /\ hasRef
    THEN Built("", [built |-> TRUE, ctor |-> "NewFromProviderConfig",
                    hasSecretRef |-> TRUE, hasKubeClient |-> TRUE, Creds |-> r.creds],
               [present |-> TRUE, credentials |-> NilBlob, lastUpdated |-> ZeroTime,
                ttl |-> DefaultTTL], 1, 0)
    ELSE Built("", [built |-> TRUE, ctor |-> "NewFromProviderConfig",
                    hasSecretRef |-> FALSE, hasKubeClient |-> FALSE, Creds |-> r.creds],
               NoCache, 1, 0)

errGetPC == "cannot get ProviderConfig"
errNewClient == "cannot create new Service"

\* what Connect returned, the client construction inside it, and the steps it
\* took in order
Connected(err, external, b, steps) ==
    [err |-> err, external |-> external, build |-> b, steps |-> steps]

NotBuilt == Built("", NoHandle, NoCache, 0, 0)

ConnectPCMissingIgnored(pcFound) == FALSE

\* if err := c.kubeClient.Get(ctx, ..., pc); err != nil
ConnectPCMissing(pcFound) == ~pcFound

\* svc, err := c.createDeploymentServiceFn(...); if err != nil
ConnectServiceFailed(b) == b.err # ""

\* connector.Connect: the object must be a Deployment and its ProviderConfig
\* must be found; then newDeploymentService builds the client with the
\* connector's usage tracker, and the handler is returned around it
Connect(isDeployment, pcFound, source, hasRef, value, loadFails, trackFails, t) ==
    IF ~isDeployment THEN Connected(errNotDeployment, FALSE, NotBuilt, <<"cr.(Deployment)">>)
    ELSE IF ConnectPCMissing(pcFound)
    THEN Connected(errGetPC, FALSE, NotBuilt, <<"cr.(Deployment)", "kubeClient.Get">>)
    ELSE LET b == NewFromManagedResource(source, hasRef, TRUE, value, loadFails,
                                         trackFails, t)
             steps == <<"cr.(Deployment)", "kubeClient.Get", "createDeploymentServiceFn">>
         IN  IF ConnectServiceFailed(b) THEN Connected(errNewClient, FALSE, b, steps)
             ELSE Connected("", TRUE, b, steps)

(***************************************************************************)
(* Credential actions: one construction, then any calls, while time passes *)
(* and the secret is rotated.                                              *)
(***************************************************************************)
\* the record of a credential call: what it returned, how often it invoked
\* the loader and the usage tracker, the cache and credentials it found, when
\* it ran, the credential source a construction was given, and whether it
\* directly follows a refresh (a load by
\* RefreshCredentials or GetCredentials) that succeeded or a construction
\* that succeeded; for a failed call, whether the loader or the usage tracker
\* failed; for a Connect, whether it returned a lifecycle handler
\* for a Connect: what it was given and the steps it took
NoConnect == [isDeployment |-> TRUE, pcFound |-> TRUE, steps |-> <<>>]

\* the TTL that SetCredentialCacheTTL was given, kept while only time passes
\* and for the read that comes next
NoTTLSet == [set |-> FALSE, ttl |-> 0]

BuildOps ==
    {"Connect", "NewFromManagedResource", "NewFromProviderConfig", "New", "NewWithSecretRef"}

CredRecord(op, err, result, loads, tracks) ==
    [op |-> op, err |-> err, result |-> result, loads |-> loads, tracks |-> tracks,
     preCache |-> cache, preCreds |-> handle.Creds, at |-> now,
     afterRefresh |-> (/\ cred.op \in {"RefreshCredentials", "GetCredentials"}
                       /\ cred.loads = 1 /\ cred.err = ""),
     afterBuild |-> (cred.op \in BuildOps /\ cred.err = ""),
     hasUsage |-> FALSE,
     loadFailed |-> FALSE, trackFailed |-> FALSE, external |-> FALSE,
     source |-> "none", connect |-> NoConnect, setTTL |-> NoTTLSet]

NoCred ==
    [op |-> "none", err |-> "", result |-> NilBlob, loads |-> 0, tracks |-> 0,
     preCache |-> NoCache, preCreds |-> NilBlob, at |-> 0, afterRefresh |-> FALSE,
     afterBuild |-> FALSE, hasUsage |-> FALSE,
     loadFailed |-> FALSE, trackFailed |-> FALSE, external |-> FALSE,
     source |-> "none", connect |-> NoConnect, setTTL |-> NoTTLSet]

Build(ctor, source, hasRef, hasUsage, value, loadFails, trackFails) ==
    /\ ~handle.built
    /\ LET b == IF ctor = "NewFromManagedResource"
                THEN NewFromManagedResource(source, hasRef, hasUsage, value, loadFails,
                                            trackFails, now)
                ELSE NewFromProviderConfig(source, hasRef, value, loadFails, trackFails, now)
       IN  /\ handle' = b.handle
           /\ cache' = b.cache
           /\ cred' = [CredRecord(ctor, b.err, b.handle.Creds, b.loads, b.tracks) EXCEPT
                          !.loadFailed = ExtractCredentials(source, hasRef, value, loadFails).err # "",
                          !.trackFailed = (b.tracks = 1 /\ trackFails),
                          !.hasUsage = (ctor = "NewFromManagedResource" /\ hasUsage),
                          !.source = source]
    /\ UNCHANGED <<now, secret, lifeVars, conf, cmd, concVars>>

\* New or NewWithSecretRef called directly
BuildDirect(withRef, hasKubeClient, creds) ==
    /\ ~handle.built
    /\ LET b == IF withRef THEN NewWithSecretRef(hasKubeClient, creds) ELSE New(creds)
       IN  /\ handle' = b.handle
           /\ cache' = b.cache
           /\ cred' = CredRecord(b.handle.ctor, "", creds, 0, 0)
    /\ UNCHANGED <<now, secret, lifeVars, conf, cmd, concVars>>

ConnectBuild(isDeployment, pcFound, source, hasRef, value, loadFails, trackFails) ==
    /\ ~handle.built
    /\ LET c == Connect(isDeployment, pcFound, source, hasRef, value, loadFails,
                        trackFails, now)
       IN  /\ handle' = c.build.handle
           /\ cache' = c.build.cache
           /\ cred' = [CredRecord("Connect", c.err, c.build.handle.Creds, c.build.loads,
                                   c.build.tracks) EXCEPT
                          !.loadFailed = (c.build.loads = 1 /\
                              ExtractCredentials(source, hasRef, value, loadFails).err # ""),
                          !.trackFailed = (c.build.tracks = 1 /\ trackFails),
                          !.hasUsage = (c.build.loads = 1),
                          !.external = c.external,
                          !.source = IF isDeployment /\ pcFound THEN source ELSE "none",
                          !.connect = [isDeployment |-> isDeployment,
                                       pcFound |-> isDeployment => pcFound,
                                       steps |-> c.steps]]
    /\ UNCHANGED <<now, secret, lifeVars, conf, cmd, concVars>>

ReadCache ==
    /\ handle.built
    /\ cred' = [CredRecord("getCachedCredentials", "", getCachedCredentials(cache, now), 0, 0)
                  EXCEPT !.setTTL = cred.setTTL]
    /\ UNCHANGED <<handle, cache, now, secret, lifeVars, conf, cmd, concVars>>

Get(fails) ==
    /\ handle.built
    /\ LET r == GetCredentials(handle, cache, now, secret, fails) IN
       /\ handle' = r.handle
       /\ cache' = r.cache
       /\ cred' = [CredRecord("GetCredentials", r.err, r.result, r.loads, 0) EXCEPT
                      !.loadFailed = (r.loads = 1 /\ fails)]
    /\ UNCHANGED <<now, secret, lifeVars, conf, cmd, concVars>>

Refresh(fails) ==
    /\ handle.built
    /\ LET r == RefreshCredentials(handle, cache, now, secret, fails) IN
       /\ handle' = r.handle
       /\ cache' = r.cache
       /\ cred' = [CredRecord("RefreshCredentials", r.err, r.result, r.loads, 0) EXCEPT
                      !.loadFailed = (r.loads = 1 /\ fails)]
    /\ UNCHANGED <<now, secret, lifeVars, conf, cmd, concVars>>

SetTTL(ttl) ==
    /\ handle.built
    /\ cache' = SetCredentialCacheTTL(cache, ttl)
    /\ cred' = [CredRecord("SetCredentialCacheTTL", "", NilBlob, 0, 0)
                  EXCEPT !.setTTL = [set |-> TRUE, ttl |-> ttl]]
    /\ UNCHANGED <<handle, now, secret, lifeVars, conf, cmd, concVars>>

Tick ==
    /\ now < MaxTime
    /\ now' = now + 1
    /\ cred' = [NoCred EXCEPT !.op = "Tick",
                              !.setTTL = IF cred.op \in {"SetCredentialCacheTTL", "Tick"}
                                         THEN cred.setTTL ELSE NoTTLSet]
    /\ UNCHANGED <<handle, cache, secret, lifeVars, conf, cmd, concVars>>

RotateSecret(value) ==
    /\ value # secret
    /\ secret' = value
    /\ cred' = [NoCred EXCEPT !.op = "RotateSecret"]
    /\ UNCHANGED <<handle, cache, now, lifeVars, conf, cmd, concVars>>

(***************************************************************************)
(* Configuration: buildAkashProviderConfiguration resolves the optional    *)
(* AkashConfiguration of a ProviderConfig, whose fields are pointers to    *)
(* strings, into an AkashProviderConfiguration.                            *)
(***************************************************************************)
DefaultKeyName == "default"
DefaultKeyringBackend == "test"
DefaultNet == "mainnet"
DefaultChainId == "akashnet-2"
DefaultNode == "https://rpc.akashnet.io:443"
DefaultVersion == "0.18.0"
DefaultHome == "/tmp/.akash"
DefaultPath == "/usr/local/bin/akash"
DefaultProvidersApi == "https://akash-api.polkachu.com"

\* the fields of AkashConfiguration
ConfigFields ==
    {"KeyName", "KeyringBackend", "AccountAddress", "Net", "Version", "ChainId", "Node",
     "Home", "Path", "ProvidersApi"}

\* a *string: nil, or a pointer to a string
NilPtr == [nil |-> TRUE, val |-> ""]
Ptr(v) == [nil |-> FALSE, val |-> v]

\* a *AkashConfiguration: nil, or a pointer to a struct of optional strings
NilConfig == [nil |-> TRUE, v |-> [f \in ConfigFields |-> NilPtr]]
Config(fields) == [nil |-> FALSE, v |-> fields]

getStringValueNonEmpty(ptr, defaultValue) ==
    IF ~ptr.nil /\ ptr.val # "" THEN ptr.val ELSE defaultValue

\* getStringValue: the string pointed to, or the default for a nil pointer
getStringValue(ptr, defaultValue) ==
    IF ~ptr.nil THEN ptr.val ELSE defaultValue

\* the zero AkashProviderConfiguration
ZeroConfiguration ==
    [KeyName |-> "", KeyringBackend |-> "", AccountAddress |-> "", Net |-> "",
     Version |-> "", ChainId |-> "", Node |-> "", Home |-> "", Path |-> "",
     ProvidersApi |-> "", Creds |-> NilBlob]

\* the configuration returned for a nil AkashConfiguration
DefaultConfiguration ==
    [ZeroConfiguration EXCEPT
        !.KeyName = DefaultKeyName, !.KeyringBackend = DefaultKeyringBackend,
        !.Net = DefaultNet, !.Version = DefaultVersion, !.ChainId = DefaultChainId,
        !.Node = DefaultNode, !.Home = DefaultHome, !.Path = DefaultPath,
        !.ProvidersApi = DefaultProvidersApi]

buildAkashProviderConfigurationZeroForNil(config) ==
    IF config.nil THEN ZeroConfiguration
    ELSE [f \in ConfigFields \cup {"Creds"} |->
            IF f = "Creds" THEN NilBlob
            ELSE getStringValue(config.v[f], DefaultConfiguration[f])]

\* buildAkashProviderConfiguration: the defaults for a nil configuration,
\* otherwise each field's value or its default; Creds is set later
buildAkashProviderConfiguration(config) ==
    IF config.nil THEN DefaultConfiguration
    ELSE [KeyName        |-> getStringValue(config.v.KeyName, DefaultKeyName),
          KeyringBackend |-> getStringValue(config.v.KeyringBackend, DefaultKeyringBackend),
          AccountAddress |-> getStringValue(config.v.AccountAddress, ""),
          Net            |-> getStringValue(config.v.Net, DefaultNet),
          Version        |-> getStringValue(config.v.Version, DefaultVersion),
          ChainId        |-> getStringValue(config.v.ChainId, DefaultChainId),
          Node           |-> getStringValue(config.v.Node, DefaultNode),
          Home           |-> getStringValue(config.v.Home, DefaultHome),
          Path           |-> getStringValue(config.v.Path, DefaultPath),
          ProvidersApi   |-> getStringValue(config.v.ProvidersApi, DefaultProvidersApi),
          Creds          |-> NilBlob]

\* the values TestBuildAkashProviderConfiguration sets
CustomValues ==
    [KeyName |-> "my-key", KeyringBackend |-> "os", AccountAddress |-> "akash1234567890",
     Net |-> "testnet", Version |-> "0.20.0", ChainId |-> "testnet-1",
     Node |-> "https://custom-rpc.example.com:443", Home |-> "/custom/.akash",
     Path |-> "/custom/bin/akash", ProvidersApi |-> "https://custom-api.example.com"]

\* each field is nil, points to the empty string or points to a value
PtrKinds == {"nil", "empty", "value"}

PtrOf(kind, f) ==
    CASE kind = "nil" -> NilPtr
      [] kind = "empty" -> Ptr("")
      [] OTHER -> Ptr(CustomValues[f])

Configs ==
    {NilConfig} \cup
    {Config([f \in ConfigFields |-> PtrOf(k[f], f)]) : k \in [ConfigFields -> PtrKinds]}

NoConf == [config |-> NilConfig, resolved |-> ZeroConfiguration, applied |-> FALSE]

\* one call of buildAkashProviderConfiguration
Resolve ==
    /\ ~conf.applied
    /\ conf' = [conf EXCEPT !.resolved = buildAkashProviderConfiguration(conf.config),
                            !.applied = TRUE]
    /\ UNCHANGED <<lifeVars, credVars, concVars, cmd>>

(***************************************************************************)
(* Command line: AkashCommand.Raw and AkashCommand.DecodeJson run the      *)
(* akash binary with exec.Cmd.Output and look at its exit status, stdout   *)
(* and stderr.  Texts are sequences of phrases; stdout is either a JSON    *)
(* document with its raw_log field or something that does not decode.      *)
(***************************************************************************)
MaxAttempts == 3

\* strings.Contains
Contains(s, substr) == \E i \in 1..Len(s) : s[i] = substr

\* the two copies of the file: AsCmd of part_004 looks the binary up and
\* checks its name, AsCmd of cmd.go hands Content[0] to exec.Command
Files == {"cmd.go", "part_004"}

Contents == {<<>>, <<"akash", "query">>, <<"provider-services", "query">>, <<"sh", "query">>}

\* what one run of the command can end with
Runs ==
    [ok     : BOOLEAN,
     json   : BOOLEAN,
     raw_log: {<<>>, <<"out of gas in location">>},
     stderr : {<<>>, <<"connection refused">>, <<"error unmarshalling">>,
               <<"rpc error", "error unmarshalling">>}]

NoCmd ==
    [fn |-> "none", file |-> "cmd.go", content |-> <<>>, found |-> TRUE, pc |-> "idle",
     attempts |-> 0, failed |-> FALSE, err |-> <<>>, out |-> "", decoded |-> FALSE]

\* AsCmd: the error it returns, <<>> for none
AsCmd(file, content, found) ==
    CASE file = "cmd.go"                                       -> <<>>
      [] content = <<>>                                        -> <<"empty command">>
      [] ~found                                                -> <<"executable file not found">>
      [] content[1] \notin {"akash", "provider-services"}      -> <<"invalid command">>
      [] OTHER                                                 -> <<>>

\* the call has returned err (failed) or out
Returned(c, failed, err, out, decoded) ==
    [c EXCEPT !.pc = "returned", !.failed = failed, !.err = err, !.out = out,
              !.decoded = decoded]

\* Raw after cmd.Output(): on a failure whose stderr contains "error
\* unmarshalling" it calls itself again, on any other failure it returns the
\* raw_log of an out-of-gas answer or stderr as the error, else the output
RawOnce(c, run) ==
    LET tried == [c EXCEPT !.attempts = @ + 1]
        akErr == IF run.json THEN run.raw_log ELSE <<>>
    IN  IF ~run.ok
        THEN IF Contains(run.stderr, "error unmarshalling")
             THEN tried
             ELSE IF Contains(akErr, "out of gas in location")
                  THEN Returned(tried, TRUE, akErr, "", FALSE)
                  ELSE Returned(tried, TRUE, run.stderr, "", FALSE)
        ELSE Returned(tried, FALSE, <<>>, IF run.json THEN "json" ELSE "text", FALSE)

\* DecodeJson after cmd.Output(): the same retry, else stderr as the error,
\* else the decoder's error or nil with v filled
DecodeJsonOnce(c, run) ==
    LET tried == [c EXCEPT !.attempts = @ + 1]
    IN  IF ~run.ok
        THEN IF Contains(run.stderr, "error unmarshalling")
             THEN tried
             ELSE Returned(tried, TRUE, run.stderr, "", FALSE)
        ELSE IF ~run.json
             THEN Returned(tried, TRUE, <<"invalid character">>, "", FALSE)
             ELSE Returned(tried, FALSE, <<>>, "", TRUE)

\* Raw() or DecodeJson(v) is called: AsCmd, and a return on its error
Invoke(fn, file, content, found) ==
    /\ cmd.pc = "idle"
    /\ file = "cmd.go" => content # <<>>
    /\ LET c   == [NoCmd EXCEPT !.fn = fn, !.file = file, !.content = content,
                                !.found = found]
           err == AsCmd(file, content, found)
       IN  cmd' = IF err # <<>> THEN Returned(c, TRUE, err, "", FALSE)
                                ELSE [c EXCEPT !.pc = "run"]
    /\ UNCHANGED <<lifeVars, credVars, concVars, conf>>

\* cmd.Output() and what follows it; a binary that cannot be started fails
\* with nothing on stdout and stderr
Attempt(run) ==
    /\ cmd.pc = "run" /\ cmd.attempts < MaxAttempts
    /\ ~cmd.found => (~run.ok /\ ~run.json /\ run.raw_log = <<>> /\ run.stderr = <<>>)
    /\ run.raw_log # <<>> => run.json
    /\ cmd' = IF cmd.fn = "Raw" THEN RawOnce(cmd, run) ELSE DecodeJsonOnce(cmd, run)
    /\ UNCHANGED <<lifeVars, credVars, concVars, conf>>

\* the caller has the result and the next command can be run
Finish ==
    /\ cmd.pc = "returned"
    /\ cmd' = NoCmd
    /\ UNCHANGED <<lifeVars, credVars, concVars, conf>>

(***************************************************************************)
(* Goroutines: several callers share one secret-backed handle and run      *)
(* GetCredentials, RefreshCredentials and SetCredentialCacheTTL statement  *)
(* by statement. credentialCache.mu is a sync.RWMutex: any number of       *)
(* readers or one writer.                                                  *)
(***************************************************************************)
Goroutines == {"g1", "g2"}
MaxCalls == 3
MaxElapsed == 1
ConcTTLs == {0, DefaultTTL}

\* a goroutine outside any call; missed, stampBy and blobBy are -1 until the
\* call has read the entry; whileLoading tells whether another goroutine's
\* RefreshCredentials was in its loader call when this call took the read lock
IdleLocal ==
    [op |-> "none", arg |-> 0, result |-> NilBlob, err |-> "", loaded |-> NilBlob,
     loadId |-> 0, loads |-> 0, missed |-> -1, stampBy |-> -1, blobBy |-> -1,
     whileLoading |-> FALSE]

Unlocked == [writer |-> "none", readers |-> {}]

\* no load and no write yet: load 0 stands for what the constructor stored
NoFlight ==
    [calls |-> 0, loads |-> 0, version |-> 0, credentialsBy |-> 0, lastUpdatedBy |-> 0,
     newest |-> 0, newestBlob |-> NilBlob]

ConcIdle ==
    /\ pc = [p \in Goroutines |-> "idle"]
    /\ loc = [p \in Goroutines |-> IdleLocal]
    /\ mu = Unlocked
    /\ flight = NoFlight

ReadLockFreeNoLoad(m) == m.writer = "none" /\ \A q \in Goroutines : pc[q] # "load"

\* mu.RLock() returns once no writer holds the mutex
ReadLockFree(m) == m.writer = "none"

\* whether a RefreshCredentials of a goroutine other than p is in its loader call
RefreshLoading(p) ==
    \E q \in Goroutines \ {p} : pc[q] = "load" /\ loc[q].op = "RefreshCredentials"

WriteLockFreeIgnoringReaders(m) == m.writer = "none"

\* mu.Lock() returns once neither a writer nor a reader holds the mutex
WriteLockFree(m) == m.writer = "none" /\ m.readers = {}

\* GetCredentials is entered: without a secret reference it returns
\* Config.Creds, else it goes on to getCachedCredentials
CallGet(p) ==
    /\ pc[p] = "idle" /\ flight.calls < MaxCalls
    /\ flight' = [flight EXCEPT !.calls = @ + 1]
    /\ IF handle.hasSecretRef /\ cache.present
       THEN /\ pc' = [pc EXCEPT ![p] = "rlock"]
            /\ loc' = [loc EXCEPT ![p] = [IdleLocal EXCEPT !.op = "GetCredentials"]]
       ELSE /\ pc' = [pc EXCEPT ![p] = IF handle.hasSecretRef THEN "load" ELSE "done"]
            /\ loc' = [loc EXCEPT ![p] = [IdleLocal EXCEPT !.op = "GetCredentials",
                                                            !.result = handle.Creds]]
    /\ UNCHANGED <<mu, lifeVars, conf, cmd, credVars>>

\* RefreshCredentials is entered: nothing to do without a secret reference,
\* else loadAndCacheCredentials
CallRefresh(p) ==
    /\ pc[p] = "idle" /\ flight.calls < MaxCalls
    /\ flight' = [flight EXCEPT !.calls = @ + 1]
    /\ pc' = [pc EXCEPT ![p] = IF handle.hasSecretRef THEN "load" ELSE "done"]
    /\ loc' = [loc EXCEPT ![p] = [IdleLocal EXCEPT !.op = "RefreshCredentials"]]
    /\ UNCHANGED <<mu, lifeVars, conf, cmd, credVars>>

\* SetCredentialCacheTTL(ttl) is entered
CallSetTTL(p, ttl) ==
    /\ pc[p] = "idle" /\ flight.calls < MaxCalls
    /\ flight' = [flight EXCEPT !.calls = @ + 1]
    /\ pc' = [pc EXCEPT ![p] = IF cache.present THEN "lock" ELSE "done"]
    /\ loc' = [loc EXCEPT ![p] = [IdleLocal EXCEPT !.op = "SetCredentialCacheTTL",
                                                    !.arg = ttl]]
    /\ UNCHANGED <<mu, lifeVars, conf, cmd, credVars>>

\* getCachedCredentials: mu.RLock()
AcquireRead(p) ==
    /\ pc[p] = "rlock" /\ ReadLockFree(mu)
    /\ mu' = [mu EXCEPT !.readers = @ \cup {p}]
    /\ pc' = [pc EXCEPT ![p] = "readStamp"]
    /\ loc' = [loc EXCEPT ![p].whileLoading = RefreshLoading(p)]
    /\ UNCHANGED <<flight, lifeVars, conf, cmd, credVars>>

\* getCachedCredentials: time.Since(lastUpdated) > ttl
ReadTimestamp(p) ==
    /\ pc[p] = "readStamp"
    /\ IF Expired(cache, now)
       THEN /\ pc' = [pc EXCEPT ![p] = "runlock"]
            /\ loc' = [loc EXCEPT ![p].result = NilBlob, ![p].missed = flight.version]
       ELSE /\ pc' = [pc EXCEPT ![p] = "readBlob"]
            /\ loc' = [loc EXCEPT ![p].stampBy = flight.lastUpdatedBy]
    /\ UNCHANGED <<mu, flight, lifeVars, conf, cmd, credVars>>

\* getCachedCredentials: return credentialCache.credentials
ReadCredentials(p) ==
    /\ pc[p] = "readBlob"
    /\ pc' = [pc EXCEPT ![p] = "runlock"]
    /\ loc' = [loc EXCEPT ![p].result = cache.credentials,
                          ![p].blobBy = flight.credentialsBy,
                          ![p].missed = IF cache.credentials = NilBlob
                                        THEN flight.version ELSE -1]
    /\ UNCHANGED <<mu, flight, lifeVars, conf, cmd, credVars>>

\* getCachedCredentials: the deferred mu.RUnlock(); GetCredentials returns a
\* non-nil result and goes on to loadAndCacheCredentials otherwise
ReleaseRead(p) ==
    /\ pc[p] = "runlock"
    /\ mu' = [mu EXCEPT !.readers = @ \ {p}]
    /\ pc' = [pc EXCEPT ![p] = IF loc[p].result # NilBlob THEN "done" ELSE "load"]
    /\ UNCHANGED <<loc, flight, lifeVars, conf, cmd, credVars>>

\* loadAndCacheCredentials: resource.CommonCredentialExtractor, outside the lock
LoadSecret(p, fails) ==
    /\ pc[p] = "load"
    /\ IF ~handle.hasKubeClient \/ ~handle.hasSecretRef
       THEN /\ pc' = [pc EXCEPT ![p] = "done"]
            /\ loc' = [loc EXCEPT ![p].result = handle.Creds]
            /\ flight' = flight
       ELSE LET r  == ExtractSecret(secret, fails)
                id == flight.loads + 1
            IN  IF r.err # ""
                THEN /\ pc' = [pc EXCEPT ![p] = "done"]
                     /\ loc' = [loc EXCEPT ![p].err = r.err, ![p].loads = 1,
                                           ![p].result = NilBlob]
                     /\ flight' = [flight EXCEPT !.loads = id]
                ELSE /\ pc' = [pc EXCEPT ![p] = IF cache.present THEN "lock" ELSE "setCreds"]
                     /\ loc' = [loc EXCEPT ![p].loaded = r.creds, ![p].loadId = id,
                                           ![p].loads = 1]
                     /\ flight' = [flight EXCEPT !.loads = id, !.newest = id,
                                                 !.newestBlob = r.creds]
    /\ UNCHANGED <<mu, lifeVars, conf, cmd, credVars>>

\* mu.Lock() of loadAndCacheCredentials and of SetCredentialCacheTTL
AcquireWrite(p) ==
    /\ pc[p] = "lock" /\ WriteLockFree(mu)
    /\ mu' = [mu EXCEPT !.writer = p]
    /\ pc' = [pc EXCEPT ![p] = IF loc[p].op = "SetCredentialCacheTTL"
                               THEN "writeTTL" ELSE "writeBlob"]
    /\ UNCHANGED <<loc, flight, lifeVars, conf, cmd, credVars>>

\* credentialCache.credentials = creds
WriteCredentials(p) ==
    /\ pc[p] = "writeBlob"
    /\ cache' = [cache EXCEPT !.credentials = loc[p].loaded]
    /\ flight' = [flight EXCEPT !.credentialsBy = loc[p].loadId, !.version = @ + 1]
    /\ pc' = [pc EXCEPT ![p] = "writeStamp"]
    /\ UNCHANGED <<loc, mu, handle, now, secret, cred, lifeVars, conf, cmd>>

\* credentialCache.lastUpdated = time.Now()
WriteTimestamp(p) ==
    /\ pc[p] = "writeStamp"
    /\ cache' = [cache EXCEPT !.lastUpdated = At(now)]
    /\ flight' = [flight EXCEPT !.lastUpdatedBy = loc[p].loadId]
    /\ pc' = [pc EXCEPT ![p] = "unlock"]
    /\ UNCHANGED <<loc, mu, handle, now, secret, cred, lifeVars, conf, cmd>>

\* credentialCache.ttl = ttl
WriteTTL(p) ==
    /\ pc[p] = "writeTTL"
    /\ cache' = [cache EXCEPT !.ttl = loc[p].arg]
    /\ pc' = [pc EXCEPT ![p] = "unlock"]
    /\ UNCHANGED <<loc, mu, flight, handle, now, secret, cred, lifeVars, conf, cmd>>

\* mu.Unlock()
ReleaseWrite(p) ==
    /\ pc[p] = "unlock"
    /\ mu' = [mu EXCEPT !.writer = "none"]
    /\ pc' = [pc EXCEPT ![p] = IF loc[p].op = "SetCredentialCacheTTL"
                               THEN "done" ELSE "setCreds"]
    /\ UNCHANGED <<loc, flight, lifeVars, conf, cmd, credVars>>

\* ak.Config.Creds = creds, outside the lock: when several goroutines stand
\* at this assignment the writes race, and the field ends as any of them
WriteConfigCreds(p) ==
    /\ pc[p] = "setCreds"
    /\ \E q \in {g \in Goroutines : pc[g] = "setCreds"} :
          handle' = [handle EXCEPT !.Creds = loc[q].loaded]
    /\ pc' = [pc EXCEPT ![p] = "done"]
    /\ loc' = [loc EXCEPT ![p].result = IF loc[p].op = "GetCredentials"
                                        THEN loc[p].loaded ELSE NilBlob]
    /\ UNCHANGED <<mu, flight, cache, now, secret, cred, lifeVars, conf, cmd>>

\* the call has returned and its caller moves on
Return(p) ==
    /\ pc[p] = "done"
    /\ pc' = [pc EXCEPT ![p] = "idle"]
    /\ loc' = [loc EXCEPT ![p] = IdleLocal]
    /\ UNCHANGED <<mu, flight, lifeVars, conf, cmd, credVars>>

Elapse ==
    /\ now < MaxElapsed
    /\ now' = now + 1
    /\ UNCHANGED <<handle, cache, secret, cred, lifeVars, conf, cmd, concVars>>

(***************************************************************************)
(* Specifications                                                          *)
(***************************************************************************)
NotDeployment ==
    [isDeployment |-> FALSE, ann |-> Annotated([k \in {ExternalNameKey} |-> Str12345]),
     manifest |-> "deploy.yaml", observable |-> ""]

Init ==
    /\ ak \in [AccountAddress : Accounts, impl : ClientImpls]
    /\ \E a \in InitialAnnotations :
          objs = [o \in Objects |->
                    CASE o = "d1" -> [isDeployment |-> TRUE, ann |-> a,
                                      manifest |-> "", observable |-> ""]
                      [] o = "d2" -> [isDeployment |-> TRUE, ann |-> NilAnnotations,
                                      manifest |-> "deploy.yaml", observable |-> ""]
                      [] OTHER    -> NotDeployment]
    /\ last = NoCall
    /\ owners = {}
    /\ handle = NoHandle
    /\ cache = NoCache
    /\ now = 0
    /\ secret = "key-A"
    /\ cred = NoCred
    /\ ConcIdle
    /\ conf = NoConf
    /\ cmd = NoCmd

Next ==
    \/ \E o \in Objects, ctx \in Contexts : \E env \in CtxEnvs(ctx) :
          Observe(o, ctx, env)
    \/ \E o \in Objects, ctx \in Contexts : \E env \in CtxEnvs(ctx) :
          LegacyObserve(o, ctx, env)
    \/ \E o \in Objects, ctx \in Contexts : \E env \in CtxEnvs(ctx) :
          Create(o, ctx, env)
    \/ \E o \in Objects, ctx \in Contexts : \E env \in CtxEnvs(ctx) :
          Update(o, ctx, env)
    \/ \E o \in Objects, ctx \in Contexts : \E env \in CtxEnvs(ctx) :
          Delete(o, ctx, env)

Spec == Init /\ [][Next]_vars

CredInit ==
    /\ ak = [AccountAddress |-> "akash1owner", impl |-> "node"]
    /\ objs = [o \in Objects |-> NotDeployment]
    /\ last = NoCall
    /\ owners = {}
    /\ handle = NoHandle
    /\ cache = NoCache
    /\ now = 0
    /\ secret \in SecretValues
    /\ cred = NoCred
    /\ ConcIdle
    /\ conf = NoConf
    /\ cmd = NoCmd

CredNext ==
    \/ \E ctor \in {"NewFromManagedResource", "NewFromProviderConfig"},
          source \in Sources, hasRef \in BOOLEAN, hasUsage \in BOOLEAN,
          loadFails \in BOOLEAN, trackFails \in BOOLEAN :
            Build(ctor, source, hasRef, hasUsage,
                  IF source = "Secret" THEN secret ELSE "key-A", loadFails, trackFails)
    \/ \E withRef \in BOOLEAN, hasKubeClient \in BOOLEAN, creds \in {NilBlob, "key-A"} :
            BuildDirect(withRef, hasKubeClient, creds)
    \/ \E isDeployment \in BOOLEAN, pcFound \in BOOLEAN, source \in Sources,
          hasRef \in BOOLEAN, loadFails \in BOOLEAN, trackFails \in BOOLEAN :
            ConnectBuild(isDeployment, pcFound, source, hasRef,
                         IF source = "Secret" THEN secret ELSE "key-A", loadFails, trackFails)
    \/ ReadCache
    \/ \E fails \in BOOLEAN : Get(fails)
    \/ \E fails \in BOOLEAN : Refresh(fails)
    \/ \E ttl \in TTLChoices : SetTTL(ttl)
    \/ Tick
    \/ \E value \in SecretValues : RotateSecret(value)

CredSpec == CredInit /\ [][CredNext]_vars

\* one handle with a secret reference, as NewFromManagedResource leaves it
\* (cache filled) or as NewWithSecretRef leaves it (cache empty)
ConcInit ==
    /\ ak = [AccountAddress |-> "akash1owner", impl |-> "node"]
    /\ objs = [o \in Objects |-> NotDeployment]
    /\ last = NoCall
    /\ owners = {}
    /\ now = 0
    /\ secret = "key-A"
    /\ cred = NoCred
    /\ \E b \in {NewFromManagedResource("Secret", TRUE, TRUE, "key-A", FALSE, FALSE, 0),
                 NewFromProviderConfig("Secret", TRUE, "key-A", FALSE, FALSE, 0)} :
          handle = b.handle /\ cache = b.cache
    /\ ConcIdle
    /\ conf = NoConf
    /\ cmd = NoCmd

ConcNext ==
    \/ \E p \in Goroutines : CallGet(p)
    \/ \E p \in Goroutines : CallRefresh(p)
    \/ \E p \in Goroutines, ttl \in ConcTTLs : CallSetTTL(p, ttl)
    \/ \E p \in Goroutines : AcquireRead(p)
    \/ \E p \in Goroutines : ReadTimestamp(p)
    \/ \E p \in Goroutines : ReadCredentials(p)
    \/ \E p \in Goroutines : ReleaseRead(p)
    \/ \E p \in Goroutines, fails \in BOOLEAN : LoadSecret(p, fails)
    \/ \E p \in Goroutines : AcquireWrite(p)
    \/ \E p \in Goroutines : WriteCredentials(p)
    \/ \E p \in Goroutines : WriteTimestamp(p)
    \/ \E p \in Goroutines : WriteTTL(p)
    \/ \E p \in Goroutines : ReleaseWrite(p)
    \/ \E p \in Goroutines : WriteConfigCreds(p)
    \/ \E p \in Goroutines : Return(p)
    \/ Elapse
    \/ \E value \in Blobs : RotateSecret(value)

ConcSpec == ConcInit /\ [][ConcNext]_vars

\* any AkashConfiguration, resolved once
ConfInit ==
    /\ ak = [AccountAddress |-> "akash1owner", impl |-> "node"]
    /\ objs = [o \in Objects |-> NotDeployment]
    /\ last = NoCall
    /\ owners = {}
    /\ handle = NoHandle
    /\ cache = NoCache
    /\ now = 0
    /\ secret = "key-A"
    /\ cred = NoCred
    /\ ConcIdle
    /\ \E c \in Configs : conf = [NoConf EXCEPT !.config = c]
    /\ cmd = NoCmd

ConfNext == Resolve

ConfigSpec == ConfInit /\ [][ConfNext]_vars

\* commands run one after the other
CmdInit ==
    /\ ak = [AccountAddress |-> "akash1owner", impl |-> "node"]
    /\ objs = [o \in Objects |-> NotDeployment]
    /\ last = NoCall
    /\ owners = {}
    /\ handle = NoHandle
    /\ cache = NoCache
    /\ now = 0
    /\ secret = "key-A"
    /\ cred = NoCred
    /\ ConcIdle
    /\ conf = NoConf
    /\ cmd = NoCmd

CmdNext ==
    \/ \E fn \in {"Raw", "DecodeJson"}, file \in Files, content \in Contents,
          found \in BOOLEAN : Invoke(fn, file, content, found)
    \/ \E run \in Runs : Attempt(run)
    \/ Finish

CmdSpec == CmdInit /\ [][CmdNext]_vars

\* a remote side whose lookups and creations succeed
SuccessEnvs == {env \in Envs : env.nodeOk /\ env.rpcOk}

\* the reconciliation loop over a client whose calls succeed
ReconcileInit == Init /\ ak.impl \in {"node", "mock"}

ReconcileNext ==
    \/ \E o \in Objects, env \in SuccessEnvs : ReconcileObserve(o, env)
    \/ \E env \in SuccessEnvs : ReconcileCreate(env)

\* every object is requeued again and again: strong fairness of its Observe,
\* SF_vars(\E env \in SuccessEnvs : ReconcileObserve(o, env)), written out, with
\* ~CreateDue for the states in which that step is enabled
RequeuedForever(o) ==
    \/ <>[]CreateDue
    \/ []<><<\E env \in SuccessEnvs : ReconcileObserve(o, env)>>_vars

\* every object is requeued again and again, and a pass that has observed
\* goes on to its Create
ReconcileSpec ==
    /\ ReconcileInit /\ [][ReconcileNext]_vars
    /\ \A o \in Objects : RequeuedForever(o)
    /\ WF_vars(\E env \in SuccessEnvs : ReconcileCreate(env))

(***************************************************************************)
(* Properties of the lifecycle handler (under Spec)                        *)
(***************************************************************************)
ObserveOps == {"Observe", "LegacyObserve"}

NoMarker(cr) == ExternalName(cr) = <<>>

\* C1: Observe on a Deployment whose external-name annotation is absent or
\* empty returns no error, reports ResourceExists = false and calls no method
\* of the client.
C1_ObserveWithoutMarker ==
    (last.op \in ObserveOps /\ last.pre.isDeployment /\ NoMarker(last.pre))
        => (last.err = "" /\ ~last.exists /\ last.calls = <<>>)

\* C1, for the Observe that reads the annotation alone: it holds there.
C1_ObserveReadingMarker ==
    (last.op = "Observe" /\ last.pre.isDeployment /\ NoMarker(last.pre))
        => (last.err = "" /\ ~last.exists /\ last.calls = <<>> /\ last.callouts = <<>>)

\* the lookup of the latest Observe succeeded, and where the node was
\* queried it answered with the deployment asked for
LookupEchoed ==
    /\ last.calls # <<>>
    /\ last.lookupErr = ""
    /\ (\E i \in DOMAIN last.callouts : last.callouts[i] = "Query.Deployment") => last.echo

IdentityFields == {"dseq", "gseq", "oseq", "owner"}

\* C2 as stated: an Observe that directly follows a successful Create on the
\* same object, its lookup echoing, reports existence and surfaces dseq, gseq,
\* oseq and owner as Create returned them.
C2_ObserveSurfacesAllIdentityFields ==
    (last.op = "Observe" /\ last.afterCreate /\ LookupEchoed)
        => /\ last.exists
           /\ \A k \in IdentityFields :
                k \in DOMAIN last.details /\ last.details[k] = last.created[k]

\* C2 as amended: such an Observe looks up the dseq and owner Create returned,
\* and when the lookup echoes it reports existence and surfaces that dseq and
\* that owner; gseq and oseq are not among its connection details.
C2_ObserveSurfacesDseqAndOwner ==
    (last.op = "Observe" /\ last.afterCreate)
        => /\ last.calls = << Call("GetDeployment", last.created.dseq, last.created.owner, "") >>
           /\ LookupEchoed =>
                /\ last.exists
                /\ last.details.dseq = last.created.dseq
                /\ last.details.owner = last.created.owner
                /\ DOMAIN last.details = {"dseq", "owner", "state"}

C2_Witness ==
    /\ last.op = "Observe" /\ last.afterCreate /\ LookupEchoed
    /\ last.exists /\ last.details.dseq = Str12345
    /\ \E i \in DOMAIN last.callouts : last.callouts[i] = "Query.Deployment"

\* C3: when Observe finds a marker and the client's lookup fails, for whatever
\* reason, Observe returns no error and reports ResourceExists = false and
\* ResourceUpToDate = false.
C3_LookupFailureIsAbsence ==
    (last.op \in ObserveOps /\ last.calls # <<>> /\ last.lookupErr # "")
        => (last.err = "" /\ ~last.exists /\ ~last.upToDate)

C3_Witness ==
    /\ last.op = "Observe" /\ ~NoMarker(last.pre)
    /\ last.lookupErr = "failed to query deployment"
    /\ last.err = "" /\ ~last.exists

\* what lets a reconciler call Update: the latest Observe reported an
\* existing resource that is not up to date
UpdateDue == last.op \in ObserveOps /\ last.err = "" /\ last.exists /\ ~last.upToDate

C5_UpdateWithoutMarker ==
    (last.op = "Update" /\ last.pre.isDeployment /\ NoMarker(last.pre))
        => (last.err = errNoExternalName /\ last.calls = <<>> /\ last.callouts = <<>>)

C5_Witness ==
    /\ last.op = "Update" /\ last.pre.isDeployment /\ ~last.pre.ann.isNil
    /\ ExternalNameKey \in DOMAIN last.pre.ann.m /\ NoMarker(last.pre)
    /\ last.err = errNoExternalName

\* C6: Delete without a marker succeeds and calls nothing; Delete with a
\* marker calls the client's DeleteDeployment exactly once, with that marker.
C6_DeleteCallsCloseOnce ==
    (last.op = "Delete" /\ last.pre.isDeployment)
        => IF NoMarker(last.pre)
           THEN last.err = "" /\ last.calls = <<>> /\ last.callouts = <<>>
           ELSE /\ Len(last.calls) = 1
                /\ last.calls[1].method = "DeleteDeployment"
                /\ last.calls[1].dseq = ExternalName(last.pre)

C6_Witness ==
    /\ last.op = "Delete" /\ ExternalName(last.pre) = Str007
    /\ Len(last.calls) = 1 /\ last.err = ""
    /\ \E i \in DOMAIN last.callouts : last.callouts[i] = "Tx.BroadcastMsgs"

\* C7: a step changes an object's marker only if it is a Create on that
\* object that succeeded: Observe, Update and Delete leave it as it is,
\* whatever they return.
C7_MarkerWrittenOnlyByCreate ==
    [][\A o \in Objects :
         ExternalName(objs'[o]) # ExternalName(objs[o])
             => (last'.op = "Create" /\ last'.obj = o /\ last'.err = "")]_vars

C7_Witness ==
    /\ last.op = "Delete" /\ last.err = "" /\ last.calls # <<>>
    /\ ExternalName(last.pre) = Str12345
    /\ ExternalName(objs[last.obj]) = Str12345

\* C8: the owner Observe passes to the lookup and Delete passes to the close
\* is the handle's Config.AccountAddress, whatever the object holds, so one
\* handle passes one owner for all its objects.
C8_OwnerIsAccountAddress ==
    /\ last.op \in {"Observe", "Delete"}
           => \A i \in DOMAIN last.calls : last.calls[i].owner = ak.AccountAddress
    /\ owners \subseteq {ak.AccountAddress}

C8_Witness ==
    /\ last.op = "Delete" /\ last.obj = "d2" /\ last.calls # <<>>
    /\ last.calls[1].owner = "akash1owner"
    /\ objs["d1"].observable = "active"
    /\ objs["d1"].manifest # objs["d2"].manifest
    /\ owners = {"akash1owner"}

(***************************************************************************)
(* Properties of the credential cache (under CredSpec)                     *)
(***************************************************************************)
\* now - lastUpdated <= ttl for the cache a call found
FoundFresh ==
    /\ ~cred.preCache.lastUpdated.zero
    /\ cred.at - cred.preCache.lastUpdated.at <= cred.preCache.ttl

\* C9: a read of the cache (getCachedCredentials) returns the cached
\* credentials when now - lastUpdated <= ttl and nil, a miss, in every other
\* case; a cached non-nil blob is returned if and only if the entry is that
\* fresh. The read invokes no loader and leaves cache and credentials alone.
C9_ReadIffFresh ==
    (cred.op = "getCachedCredentials" /\ cred.preCache.present)
        => /\ cred.result = IF FoundFresh THEN cred.preCache.credentials ELSE NilBlob
           /\ cred.preCache.credentials # NilBlob => (cred.result # NilBlob <=> FoundFresh)
           /\ cred.loads = 0
           /\ cache = cred.preCache
           /\ handle.Creds = cred.preCreds

\* a read exactly ttl after the last refresh, which is a hit
C9_Witness ==
    /\ cred.op = "getCachedCredentials"
    /\ cred.preCache.ttl > 0
    /\ cred.at - cred.preCache.lastUpdated.at = cred.preCache.ttl
    /\ cred.result \in Blobs

\* a read one minute later, which is a miss
C9_WitnessStale ==
    /\ cred.op = "getCachedCredentials"
    /\ cred.preCache.credentials \in Blobs
    /\ cred.at - cred.preCache.lastUpdated.at = cred.preCache.ttl + 1
    /\ cred.result = NilBlob

\* C10 as stated: a GetCredentials that directly follows a successful refresh
\* returns the blob that refresh cached and does not invoke the loader.
C10_GetAfterRefreshIsCached ==
    (cred.op = "GetCredentials" /\ cred.afterRefresh)
        => (cred.err = "" /\ cred.loads = 0 /\ cred.result = cred.preCache.credentials)

\* C10 as amended: it does so when the TTL is positive and the refresh loaded
\* a blob that is not nil; the cache and the credentials stay as the refresh
\* left them.
C10_GetAfterRefreshWithPositiveTTL ==
    (/\ cred.op = "GetCredentials" /\ cred.afterRefresh
     /\ cred.preCache.ttl > 0 /\ cred.preCache.credentials # NilBlob)
        => /\ cred.err = "" /\ cred.loads = 0
           /\ cred.result = cred.preCache.credentials
           /\ cred.result = cred.preCreds
           /\ cache = cred.preCache

C10_Witness ==
    /\ cred.op = "GetCredentials" /\ cred.afterRefresh
    /\ cred.preCache.ttl > 0 /\ cred.preCache.credentials = "key-B"
    /\ cred.result = "key-B" /\ cred.loads = 0
    /\ secret = "key-B" /\ cred.at > 0

(***************************************************************************)
(* Properties of concurrent credential calls (under ConcSpec)              *)
(***************************************************************************)
\* the GetCredentials calls now in progress that found the entry stale, or
\* empty, at the given version of the cached blob
MissedAt(v) ==
    {p \in Goroutines : /\ loc[p].op = "GetCredentials"
                        /\ pc[p] \notin {"idle", "done"}
                        /\ loc[p].missed = v}

\* C11 as stated: the GetCredentials calls in progress at one time that found
\* the same entry stale invoke the loader once between them.
C11_SingleFlight ==
    \A p \in Goroutines, q \in Goroutines :
        (p # q /\ loc[p].missed >= 0 /\ p \in MissedAt(loc[p].missed)
               /\ q \in MissedAt(loc[p].missed))
            => loc[p].loads + loc[q].loads <= 1

\* every call is over
Quiescent == \A p \in Goroutines : pc[p] \in {"idle", "done"}

\* C12 as stated: once every refresh has finished, the cache holds the blob
\* of the load that started last; an earlier load never replaces it.
C12_NewestLoadWins ==
    (Quiescent /\ flight.newest > 0) => cache.credentials = flight.newestBlob

\* C13: a goroutine reads the timestamp, the ttl and the blob only while it
\* is among the readers of the mutex and no writer holds it, and writes them
\* only while it is the writer and there is no reader; so the blob a reader
\* sees is the one stored with the timestamp it saw, and whenever no writer
\* holds the mutex blob and timestamp are of one and the same load.
C13_AccessUnderLock ==
    /\ \A p \in Goroutines :
          pc[p] \in {"readStamp", "readBlob", "runlock"}
              => (p \in mu.readers /\ mu.writer = "none")
    /\ \A p \in Goroutines :
          pc[p] \in {"writeBlob", "writeStamp", "writeTTL", "unlock"}
              => (mu.writer = p /\ mu.readers = {})
    /\ \A p \in Goroutines : loc[p].blobBy >= 0 => loc[p].blobBy = loc[p].stampBy
    /\ mu.writer = "none" => flight.credentialsBy = flight.lastUpdatedBy

\* a reader has read the pair a refresh stored while another goroutine, its
\* blob loaded, waits for the write lock
C13_Witness ==
    \E p \in Goroutines, q \in Goroutines :
        /\ pc[p] = "runlock" /\ loc[p].blobBy >= 1 /\ loc[p].stampBy = loc[p].blobBy
        /\ pc[q] = "lock" /\ loc[q].loadId > loc[p].blobBy
        /\ loc[q].loaded # loc[p].result

(***************************************************************************)
(* C28: the mutex is not held across the loader call: a goroutine in its   *)
(* loader call holds neither lock, a reader waits only for a goroutine     *)
(* that is inside the short write section, and a read that took the read   *)
(* lock while another goroutine's refresh was loading returns the cached   *)
(* blob of a fresh entry without loading.                                  *)
(***************************************************************************)
WriteSection == {"writeBlob", "writeStamp", "writeTTL", "unlock"}

C28_ReadNotBlockedByLoad ==
    /\ \A q \in Goroutines : pc[q] = "load" => (mu.writer # q /\ q \notin mu.readers)
    /\ \A p \in Goroutines :
          (pc[p] = "rlock" /\ ~ReadLockFree(mu)) =>
             \E r \in Goroutines : mu.writer = r /\ pc[r] \in WriteSection
    /\ \A p \in Goroutines :
          (pc[p] = "done" /\ loc[p].whileLoading /\ loc[p].blobBy >= 0
           /\ loc[p].result # NilBlob) => (loc[p].loads = 0 /\ loc[p].err = "")

\* a GetCredentials that took the read lock during another goroutine's
\* refresh load has returned the cached blob, and that load is still going on
C28_Witness ==
    \E p \in Goroutines, q \in Goroutines :
        /\ pc[p] = "done" /\ loc[p].op = "GetCredentials" /\ loc[p].whileLoading
        /\ loc[p].result \in Blobs /\ loc[p].blobBy >= 0 /\ loc[p].loads = 0
        /\ pc[q] = "load" /\ loc[q].op = "RefreshCredentials" /\ flight.loads = 0

(***************************************************************************)
(* Properties of loads and of construction (under CredSpec)                *)
(***************************************************************************)
\* C14: when the loader fails during RefreshCredentials or GetCredentials,
\* the call returns the error and no blob, and the cache (blob, timestamp,
\* ttl) and Config.Creds are what they were before the call.
C14_FailedLoadChangesNothing ==
    (cred.op \in {"RefreshCredentials", "GetCredentials"} /\ cred.loadFailed)
        => /\ cred.err # "" /\ cred.result = NilBlob
           /\ cache = cred.preCache
           /\ handle.Creds = cred.preCreds

\* a get on a stale entry whose load fails while the secret holds another blob
C14_Witness ==
    /\ cred.op = "GetCredentials" /\ cred.loadFailed /\ cred.err # ""
    /\ cred.preCache.credentials = "key-A" /\ ~FoundFresh
    /\ secret = "key-B"
    /\ cache.credentials = "key-A" /\ handle.Creds = "key-A"

\* C15 as stated: every RefreshCredentials call invokes the loader exactly
\* once, on every handle.
C15_RefreshAlwaysLoads ==
    cred.op = "RefreshCredentials" => cred.loads = 1

\* C15 as amended: RefreshCredentials invokes the loader exactly once, fresh
\* entry or not, on a handle that has a secret reference and a Kubernetes
\* client; on any other handle it invokes no loader and returns no error.
C15_RefreshLoadsWhenSecretBacked ==
    cred.op = "RefreshCredentials"
        => IF handle.hasSecretRef /\ handle.hasKubeClient
           THEN cred.loads = 1
           ELSE cred.loads = 0 /\ cred.err = "" /\ cache = cred.preCache

\* a refresh of an entry that is fresh and holds what the secret holds
C15_Witness ==
    /\ cred.op = "RefreshCredentials" /\ cred.loads = 1 /\ cred.err = ""
    /\ FoundFresh /\ cred.preCache.credentials = "key-A" /\ secret = "key-A"
    /\ cred.at > cred.preCache.lastUpdated.at
    /\ cache.lastUpdated = At(now)

\* C16 as stated: GetCredentials on a handle with a secret reference returns
\* the cached blob when the entry is fresh; when it is stale it invokes the
\* loader and, on success, returns the loaded blob and leaves the cache fresh
\* with that blob.
C16_GetServesOrLoads ==
    (cred.op = "GetCredentials" /\ handle.hasSecretRef /\ cred.preCache.present)
        => IF FoundFresh
           THEN cred.result = cred.preCache.credentials
           ELSE /\ cred.loads = 1
                /\ cred.err = "" => (/\ cred.result = secret
                                     /\ cache.credentials = secret
                                     /\ ~Expired(cache, now))

\* C17: when the loader fails during NewFromManagedResource, the
\* construction returns an error and no handle, the usage tracker has not
\* been called, and a Connect around it returns no lifecycle handler.
C17_LoadFailureAbortsBuild ==
    (cred.op \in {"NewFromManagedResource", "Connect"} /\ cred.loadFailed)
        => /\ cred.err # ""
           /\ ~handle.built /\ handle = NoHandle /\ cache = NoCache
           /\ cred.tracks = 0
           /\ ~cred.external

\* a construction with a usage tracker whose load fails
C17_Witness ==
    /\ cred.op = "NewFromManagedResource" /\ cred.loadFailed /\ cred.hasUsage
    /\ cred.err = "failed to load credentials from ProviderConfig"
    /\ cred.loads = 1 /\ cred.tracks = 0 /\ ~handle.built

\* C18: when usage tracking fails during NewFromManagedResource, the
\* construction returns an error and no handle, and Connect returns an error
\* and no lifecycle handler.
C18_TrackFailureAbortsBuild ==
    (cred.op \in {"NewFromManagedResource", "Connect"} /\ cred.trackFailed)
        => /\ cred.err # ""
           /\ ~handle.built /\ handle = NoHandle /\ cache = NoCache
           /\ cred.op = "Connect" => (cred.err = errNewClient /\ ~cred.external)

\* a Connect whose load succeeds and whose usage tracking fails
C18_Witness ==
    /\ cred.op = "Connect" /\ cred.trackFailed /\ ~cred.loadFailed
    /\ cred.loads = 1 /\ cred.tracks = 1
    /\ cred.err = errNewClient /\ ~cred.external /\ ~handle.built

\* C19 as stated: every NewFromManagedResource that returns a handle has
\* called the usage tracker exactly once, and that call succeeded.
C19_HandleImpliesTracked ==
    (cred.op \in {"NewFromManagedResource", "Connect"} /\ cred.err = "")
        => (cred.tracks = 1 /\ ~cred.trackFailed)

\* C19 as amended: it has when it was given a usage tracker, as every
\* construction through Connect is; given none it returns the handle without
\* registering usage. The tracker is never called more than once.
C19_HandleImpliesTrackedWhenGivenTracker ==
    (cred.op \in {"NewFromManagedResource", "Connect"})
        => /\ cred.tracks <= 1
           /\ cred.err = "" =>
                /\ handle.built
                /\ cred.tracks = (IF cred.hasUsage THEN 1 ELSE 0)
                /\ ~cred.trackFailed
                /\ cred.op = "Connect" => (cred.hasUsage /\ cred.external)

\* a Connect that returned a lifecycle handler
C19_Witness ==
    /\ cred.op = "Connect" /\ cred.err = "" /\ cred.external
    /\ cred.tracks = 1 /\ cred.loads = 1
    /\ handle.built /\ handle.hasSecretRef /\ handle.Creds = "key-B"

\* the latest call directly follows a successful NewFromManagedResource
AfterBuild == cred.afterBuild /\ handle.ctor = "NewFromManagedResource"

\* C20 as stated: a successful NewFromManagedResource leaves the cache with
\* the loaded blob and the time of the construction, and a GetCredentials that
\* directly follows it returns that blob without invoking the loader.
C20_GetAfterBuildIsCached ==
    /\ (cred.op \in {"NewFromManagedResource", "Connect"} /\ cred.err = "")
           => (/\ cache.credentials = cred.result
               /\ handle.Creds = cred.result
               /\ cache.lastUpdated = At(now))
    /\ (cred.op = "GetCredentials" /\ AfterBuild)
           => (cred.err = "" /\ cred.loads = 0 /\ cred.result = cred.preCreds)

(***************************************************************************)
(* C21: a handle that NewFromManagedResource built, directly or through    *)
(* Connect, carries a secret reference exactly when the credential source  *)
(* is the secret store; a secret-backed handle starts with a cache whose   *)
(* TTL is five minutes; a handle built without a secret reference never    *)
(* invokes the loader from GetCredentials or RefreshCredentials.           *)
(***************************************************************************)
ManagedBuildOps == {"NewFromManagedResource", "Connect"}

C21_SecretRefIffSecretSource ==
    /\ (cred.op \in ManagedBuildOps /\ cred.err = "" /\ handle.built) =>
          /\ handle.hasSecretRef <=> (cred.source = "Secret")
          /\ handle.hasSecretRef => (cache.present /\ cache.ttl = DefaultTTL)
    /\ (/\ cred.op \in {"GetCredentials", "RefreshCredentials"}
        /\ handle.ctor = "NewFromManagedResource" /\ ~handle.hasSecretRef) =>
          (cred.loads = 0 /\ cred.err = "")

C21_Witness ==
    /\ cred.op = "NewFromManagedResource" /\ cred.err = ""
    /\ cred.source = "Secret" /\ handle.hasSecretRef /\ cache.ttl = DefaultTTL

C21_WitnessOtherSource ==
    /\ cred.op = "RefreshCredentials" /\ handle.ctor = "NewFromManagedResource"
    /\ ~handle.hasSecretRef /\ cred.loads = 0

(***************************************************************************)
(* C22: Connect returns no handler and never invokes the client factory    *)
(* when the object is not a Deployment or its ProviderConfig cannot be     *)
(* fetched; the kind check precedes the configuration lookup, which        *)
(* precedes the client construction.                                       *)
(***************************************************************************)
ConnectOrder == <<"cr.(Deployment)", "kubeClient.Get", "createDeploymentServiceFn">>

C22_ConnectChecksBeforeFactory ==
    cred.op = "Connect" =>
      /\ \E n \in 1..Len(ConnectOrder) : cred.connect.steps = SubSeq(ConnectOrder, 1, n)
      /\ ~cred.connect.isDeployment =>
            (cred.err = errNotDeployment /\ Len(cred.connect.steps) = 1)
      /\ (cred.connect.isDeployment /\ ~cred.connect.pcFound) =>
            (cred.err = errGetPC /\ Len(cred.connect.steps) = 2)
      /\ (~cred.connect.isDeployment \/ ~cred.connect.pcFound) =>
            /\ ~cred.external /\ ~handle.built
            /\ cred.loads = 0 /\ cred.tracks = 0

C22_Witness ==
    /\ cred.op = "Connect" /\ cred.connect.isDeployment /\ ~cred.connect.pcFound
    /\ cred.err = errGetPC /\ ~cred.external

C22_WitnessNotDeployment ==
    cred.op = "Connect" /\ ~cred.connect.isDeployment /\ cred.err = errNotDeployment

(***************************************************************************)
(* C25: when the client's create, update or delete call-out cannot be      *)
(* carried out, the failure to obtain the node client included, the        *)
(* client operation returns an error, so Create, Update and Delete never   *)
(* report success for an operation that was not performed remotely.        *)
(***************************************************************************)
MutatingOps == {"Create", "Update", "Delete"}

\* the handler called the client, which stopped at getNodeClient
NodeClientUnavailable == last.calls # <<>> /\ last.callouts = <<"getNodeClient">>

C25_UnperformedCallOutIsAnError ==
    (last.op \in MutatingOps /\ NodeClientUnavailable) => last.err # ""

(***************************************************************************)
(* C26: a lifecycle operation invoked with a context that is already       *)
(* canceled performs no remote call-out and returns a cancellation error.  *)
(***************************************************************************)
LifecycleOps == {"Observe", "Create", "Update", "Delete"}

C26_CanceledContextIsAnError ==
    (last.op \in LifecycleOps /\ last.pre.isDeployment /\ last.ctx = "canceled") =>
      (last.err # "" /\ last.callouts = <<>>)

(***************************************************************************)
(* C29: once Create has written the identity marker, a reconciliation pass *)
(* (Observe, then Create only if Observe reports the object absent) does   *)
(* not invoke the client's creation again for that object.                 *)
(***************************************************************************)
C29_NoSecondCreation ==
    (last.op = "Create" /\ last.follows = "absent after Create") =>
      /\ last.calls = <<>>
      /\ \A i \in DOMAIN last.callouts : last.callouts[i] # "Tx.BroadcastMsgs"

(***************************************************************************)
(* C30: after Delete succeeds on an object with a marker, the Observe that *)
(* follows, whose lookup the remote side answers with the closed           *)
(* deployment, reports that the object does not exist.                     *)
(***************************************************************************)
C30_ObserveAfterDeleteReportsAbsent ==
    (/\ last.op = "Observe" /\ last.follows = "Delete"
     /\ last.lookupErr = "" /\ last.lookupDep.State = "closed") =>
      (last.err = "" /\ ~last.exists)

(***************************************************************************)
(* C27: SetCredentialCacheTTL changes only the cache's ttl: the cached     *)
(* blob and the refresh timestamp stay as they were and no loader runs.    *)
(* After SetCredentialCacheTTL(d), a read returns the cached blob when     *)
(* now - lastUpdated <= d and nil otherwise.                               *)
(***************************************************************************)
FreshUnderSetTTL ==
    /\ ~cred.preCache.lastUpdated.zero
    /\ cred.at - cred.preCache.lastUpdated.at <= cred.setTTL.ttl

C27_SetTTLChangesOnlyTTL ==
    /\ cred.op = "SetCredentialCacheTTL" =>
          /\ cache.present = cred.preCache.present
          /\ cache.credentials = cred.preCache.credentials
          /\ cache.lastUpdated = cred.preCache.lastUpdated
          /\ cache.ttl = IF cache.present THEN cred.setTTL.ttl ELSE cred.preCache.ttl
          /\ handle.Creds = cred.preCreds
          /\ cred.loads = 0 /\ cred.err = ""
    /\ (cred.op = "getCachedCredentials" /\ cred.setTTL.set /\ cred.preCache.present) =>
          /\ cred.result = IF FreshUnderSetTTL THEN cred.preCache.credentials ELSE NilBlob
          /\ cred.preCache.credentials # NilBlob =>
                (cred.result = cred.preCache.credentials <=> FreshUnderSetTTL)

\* a read after the TTL was shortened to 2: the entry, fresh under the TTL of
\* 5 it was stored with, is stale under the new one
C27_Witness ==
    /\ cred.op = "getCachedCredentials" /\ cred.setTTL.set /\ cred.setTTL.ttl = 2
    /\ cred.preCache.credentials \in Blobs
    /\ cred.at - cred.preCache.lastUpdated.at \in 3..DefaultTTL
    /\ cred.result = NilBlob

C27_WitnessHit ==
    /\ cred.op = "getCachedCredentials" /\ cred.setTTL.set /\ cred.setTTL.ttl = 2
    /\ cred.at - cred.preCache.lastUpdated.at = 2
    /\ cred.result \in Blobs

(***************************************************************************)
(* C31 (under ReconcileSpec): in a fair reconciliation loop (Observe, then *)
(* Create if Observe reports the object absent) over a client whose create *)
(* and lookup calls succeed, every Deployment without a marker is          *)
(* eventually observed as existing and up to date; Create runs only on an  *)
(* object that Create has not marked yet, so once per object; and every    *)
(* Observe of an object that Create has marked reports it existing and up  *)
(* to date.                                                                *)
(***************************************************************************)
ObservedExisting(o) ==
    last.op = "Observe" /\ last.obj = o /\ last.err = "" /\ last.exists /\ last.upToDate

C31_ReconcileConverges ==
    /\ [](last.op = "Create" => ExternalName(last.pre) # Str12345)
    /\ [](\A o \in Deployments :
            (last.op = "Observe" /\ last.obj = o /\ ExternalName(objs[o]) = Str12345)
               => ObservedExisting(o))
    /\ \A o \in Deployments : NoMarker(objs[o]) ~> ObservedExisting(o)

\* the Observe right after the one Create of an object that had no marker
C31_Witness ==
    /\ last.follows = "Create" /\ ObservedExisting(last.obj)
    /\ last.created.dseq = Str12345 /\ ExternalName(last.pre) = Str12345

(***************************************************************************)
(* C32: when the client's creation call fails, Create returns that error   *)
(* with empty connection details and leaves the object, its marker and its *)
(* annotations as they were; when it succeeds, the marker Create has       *)
(* written is the dseq the call returned.                                  *)
(***************************************************************************)
C32_FailedCreateLeavesObject ==
    (last.op = "Create" /\ last.calls # <<>>) =>
      IF last.err # ""
      THEN /\ last.details = NoDetails
           /\ objs[last.obj] = last.pre
           /\ last.callouts # <<>>
      ELSE /\ ExternalName(objs[last.obj]) = last.details.dseq
           /\ last.details.dseq # <<>>

\* a Create whose broadcast failed, on an object that already had a marker
C32_Witness ==
    /\ last.op = "Create" /\ last.err = "failed to broadcast transaction"
    /\ ExternalName(last.pre) = Str007 /\ ExternalName(objs[last.obj]) = Str007

C32_WitnessMarked ==
    /\ last.op = "Create" /\ last.err = "" /\ NoMarker(last.pre)
    /\ ExternalName(objs[last.obj]) = Str12345

(***************************************************************************)
(* C35: Observe, Create, Update and Delete on an object that is not a      *)
(* Deployment each return the not-a-Deployment error, call no client       *)
(* method, make no call-out and leave the object as it was.                *)
(***************************************************************************)
C35_NotADeploymentIsRejected ==
    (last.op \in {"Observe", "Create", "Update", "Delete"} /\ ~last.pre.isDeployment) =>
        /\ last.err = "managed resource is not a Deployment custom resource"
        /\ last.calls = <<>> /\ last.callouts = <<>>
        /\ ~last.exists /\ last.details = NoDetails
        /\ objs[last.obj] = last.pre

\* Delete was called on the object of another kind, which carries a marker
C35_Witness ==
    /\ last.op = "Delete" /\ ~last.pre.isDeployment /\ last.err = errNotDeployment
    /\ ExternalName(last.pre) = Str12345

C35_WitnessEach ==
    /\ last.op \in {"Observe", "Create", "Update"} /\ ~last.pre.isDeployment
    /\ last.err = errNotDeployment

\* a marker that is not a base-10 unsigned 64-bit integer
InvalidDseq(dseq) == dseq # <<>> /\ ~ParseUint(dseq).ok

(***************************************************************************)
(* C36: GetDeployment, UpdateDeployment and DeleteDeployment reject an     *)
(* identity that is not a base-10 uint64 with "invalid dseq" before they   *)
(* obtain the node client or make any call-out; so Observe of an object    *)
(* with such a marker reports absence without error, and Update and Delete *)
(* return the error.                                                       *)
(***************************************************************************)
C36_InvalidDseqRejectedFirst ==
    (last.pre.isDeployment /\ InvalidDseq(ExternalName(last.pre))) =>
        /\ last.op \in {"Observe", "Update", "Delete"} =>
              (Len(last.calls) = 1 /\ last.callouts = <<>>)
        /\ last.op = "Observe" =>
              (last.lookupErr = "invalid dseq" /\ last.err = "" /\ ~last.exists)
        /\ last.op \in {"Update", "Delete"} => last.err = "invalid dseq"

\* Delete on an object whose marker is 2^64, with a node client to be had
C36_Witness ==
    /\ last.op = "Delete" /\ last.pre.isDeployment
    /\ ExternalName(last.pre) = StrTooBig /\ last.err = "invalid dseq"
    /\ ak.impl = "node"

C36_WitnessObserve ==
    /\ last.op = "Observe" /\ last.pre.isDeployment
    /\ ExternalName(last.pre) = StrTest /\ last.lookupErr = "invalid dseq" /\ ~last.exists

C36_WitnessUpdate ==
    /\ last.op = "Update" /\ last.pre.isDeployment
    /\ ExternalName(last.pre) = StrTest /\ last.err = "invalid dseq"

(***************************************************************************)
(* C33 as stated: once every concurrent GetCredentials and                 *)
(* RefreshCredentials on a secret-backed handle has completed, the         *)
(* Config.Creds field of the handle equals the blob held in the cache.     *)
(***************************************************************************)
C33_ConfigCredsEqualsCache ==
    (Quiescent /\ handle.hasSecretRef /\ cache.present /\ flight.version > 0)
        => handle.Creds = cache.credentials

(***************************************************************************)
(* C34 as stated: a call-out is attempted at most once per operation, and  *)
(* every execution of AkashCommand.Raw and AkashCommand.DecodeJson         *)
(* terminates with the output or an error whatever the command writes to   *)
(* stderr: once the command has been run, the call has returned.           *)
(***************************************************************************)
C34_CommandRunsOnceAndReturns ==
    cmd.attempts >= 1 => (cmd.attempts = 1 /\ cmd.pc = "returned")

(***************************************************************************)
(* C37 as stated: a handle that the legacy NewFromProviderConfig built     *)
(* from a secret source serves the blob loaded at construction from its    *)
(* cache: the GetCredentials that directly follows the construction        *)
(* returns that blob (here: a blob that is not nil) without invoking the   *)
(* loader, as after NewFromManagedResource.                                *)
(***************************************************************************)
C37_LegacyBuildServesFromCache ==
    (/\ cred.op = "GetCredentials" /\ cred.afterBuild
     /\ handle.ctor = "NewFromProviderConfig" /\ handle.hasSecretRef
     /\ cred.preCreds # NilBlob)
        => (cred.err = "" /\ cred.loads = 0 /\ cred.result = cred.preCreds)

\* time a is not after time b; the zero time is before every other
NotAfter(a, b) == a.zero \/ (~b.zero /\ a.at <= b.at)

(***************************************************************************)
(* C38: over any sequence of constructions, GetCredentials,                *)
(* RefreshCredentials and SetCredentialCacheTTL the cache's lastUpdated    *)
(* never decreases, and it changes only in a step that made one successful *)
(* load and stored the loaded blob in the cache, stamped with the time of  *)
(* that step.                                                              *)
(***************************************************************************)
C38_TimestampMovesWithBlob ==
    [][cache'.lastUpdated # cache.lastUpdated =>
          /\ NotAfter(cache.lastUpdated, cache'.lastUpdated)
          /\ cache'.lastUpdated = At(now)
          /\ cred'.op \in {"NewFromManagedResource", "Connect", "GetCredentials",
                           "RefreshCredentials"}
          /\ cred'.loads = 1 /\ cred'.err = ""
          /\ cache'.credentials = handle'.Creds
          /\ cred'.op \in {"GetCredentials", "RefreshCredentials"}
                => cache'.credentials = secret
          /\ cred'.op # "RefreshCredentials" => cred'.result = cache'.credentials]_vars

\* a refresh has replaced the blob and moved the timestamp forward
C38_Witness ==
    /\ cred.op = "RefreshCredentials" /\ cred.loads = 1 /\ cred.err = ""
    /\ ~cred.preCache.lastUpdated.zero
    /\ cache.lastUpdated.at > cred.preCache.lastUpdated.at
    /\ cache.credentials # cred.preCache.credentials

\* the interleaved calls: lastUpdated is written by the goroutine that holds
\* the write lock and has just stored the blob of its successful load
C38_TimestampWrittenByLoader ==
    [][cache'.lastUpdated # cache.lastUpdated =>
          /\ NotAfter(cache.lastUpdated, cache'.lastUpdated)
          /\ \E p \in Goroutines :
                /\ pc[p] = "writeStamp" /\ mu.writer = p
                /\ loc[p].loads = 1 /\ loc[p].err = ""
                /\ cache.credentials = loc[p].loaded
                /\ flight.credentialsBy = loc[p].loadId]_vars

(***************************************************************************)
(* Properties of configuration resolution (under ConfigSpec)               *)
(***************************************************************************)
\* the defaults the specification documents
DocumentedDefaults ==
    [KeyName |-> "default", KeyringBackend |-> "test", AccountAddress |-> "",
     Net |-> "mainnet", Version |-> "0.18.0", ChainId |-> "akashnet-2",
     Node |-> "https://rpc.akashnet.io:443", Home |-> "/tmp/.akash",
     Path |-> "/usr/local/bin/akash", ProvidersApi |-> "https://akash-api.polkachu.com"]

Present(f) == ~conf.config.nil /\ ~conf.config.v[f].nil

(***************************************************************************)
(* C23: for every partial configuration, the absent one included, and      *)
(* every field, the resolved field is the provided value when the field is *)
(* present and the documented default otherwise; a configuration that sets *)
(* only net "testnet" and chain id "testnet-1" resolves to those two with  *)
(* node "https://rpc.akashnet.io:443" and keyring backend "test".          *)
(***************************************************************************)
OnlyNetAndChainId ==
    /\ \A f \in ConfigFields : Present(f) <=> f \in {"Net", "ChainId"}
    /\ conf.config.v.Net.val = "testnet" /\ conf.config.v.ChainId.val = "testnet-1"

C23_ResolveValueOrDefault ==
    conf.applied =>
      /\ \A f \in ConfigFields :
            conf.resolved[f] = IF Present(f) THEN conf.config.v[f].val
                               ELSE DocumentedDefaults[f]
      /\ OnlyNetAndChainId =>
            /\ conf.resolved.Net = "testnet" /\ conf.resolved.ChainId = "testnet-1"
            /\ conf.resolved.Node = "https://rpc.akashnet.io:443"
            /\ conf.resolved.KeyringBackend = "test"

C23_Witness == conf.applied /\ OnlyNetAndChainId /\ conf.resolved.Net = "testnet"

C23_WitnessAbsent == conf.applied /\ conf.config.nil /\ conf.resolved.Net = "mainnet"

(***************************************************************************)
(* C24: a field that is present with the empty string resolves to the      *)
(* empty string, never to its default: presence decides, not emptiness.    *)
(***************************************************************************)
C24_EmptyStringOverrides ==
    conf.applied =>
      \A f \in ConfigFields :
        (Present(f) /\ conf.config.v[f].val = "") => conf.resolved[f] = ""

C24_Witness ==
    /\ conf.applied /\ Present("Net") /\ conf.config.v.Net.val = ""
    /\ conf.resolved.Net = "" /\ DocumentedDefaults.Net # ""

====
